---------------------------- MODULE Spec2Model ----------------------------
(***************************************************************************)
(* A model of the DHCPv6 client device layer of wicked, src/dhcp6/device.c *)
(*                                                                         *)
(* The program state is the device registry (ni_dhcp6_active), the device  *)
(* records, the clock, the persistent DUID store and the kernel's view of  *)
(* the interfaces.  Every C function of device.c is an operator from a     *)
(* world record (the state) to a world record, composed in the order the   *)
(* C code calls them; an action applies one entry point to the state.      *)
(* Functions of the repository that device.c calls but does not define     *)
(* (timer, socket, DUID file, FSM) are modelled from the specification.    *)
(***************************************************************************)
EXTENDS Integers, Sequences, FiniteSets, Bags, TLC

VARIABLES
    dev,               \* device id -> device record (ni_dhcp6_device_t)
    ni_dhcp6_active,   \* the registry list, head first
    freed,             \* ids of the devices that free() has released
    nfree,             \* how often each lease and each request was freed
    lease_files,       \* interface names that have a lease file on disk
    now,               \* the monotonic clock, in milliseconds
    duid_store,        \* the DUID file: a byte sequence, <<>> when there is none
    kernel,            \* ifindex -> what the netlink mirror reports
    fsm_timers,        \* the live FSM timers: a bag of the devices they fire for
    obs                \* what the last operation returned (for the properties)

vars == <<dev, ni_dhcp6_active, freed, nfree, lease_files, now, duid_store,
          kernel, fsm_timers, obs>>

---------------------------------------------------------------------------
(* Bounds of the model *)

MaxDevs == 2
MaxUsers == 2
MaxTime == 21
MaxRetries == 2
MaxObjs == 2
MaxAddrs == 2
MaxPrefs == 2

(* NULL pointers, AF_UNSPEC, cleared timevals *)
NULL == 0

NI_DHCP6_WAIT_READY_MSEC == 2000

---------------------------------------------------------------------------
(* 32-bit words.  A uint32_t is kept as the four bytes it has in memory   *)
(* on a little-endian host, least significant byte first.                 *)

RECURSIVE XorBits(_, _, _)
XorBits(a, b, n) ==
    IF n = 0 THEN 0
    ELSE (((a % 2) + (b % 2)) % 2) + (2 * XorBits(a \div 2, b \div 2, n - 1))

Xor32(a, b) == [i \in 1..4 |-> XorBits(a[i], b[i], 8)]

(* the uint32_t whose value is n *)
Word(n) ==
    <<n % 256, (n \div 256) % 256, (n \div 65536) % 256,
      (n \div 16777216) % 256>>

(* memcpy(dst, src, n): the first n bytes of dst are replaced by those of src *)
Memcpy(dst, src, n) ==
    [i \in 1..Len(dst) |-> IF i <= n THEN src[i] ELSE dst[i]]

---------------------------------------------------------------------------
(* The interfaces the netlink mirror knows (ni_netdev_t): name, hardware    *)
(* address, ARP type and vlan tag do not change during a run.               *)

Netdevs ==
    ( 1 :> [name |-> <<108, 111>>,            \* "lo"
            hwaddr |-> <<>>, arp_type |-> "LOOPBACK", vlan |-> NULL]
   @@ 2 :> [name |-> <<101, 116, 104, 49>>,   \* "eth1"
            hwaddr |-> <<2, 17, 34, 51, 68, 85>>, arp_type |-> "ETHER",
            vlan |-> NULL]
   @@ 3 :> [name |-> <<101, 116, 104, 48>>,   \* "eth0", vlan tag 7
            hwaddr |-> <<>>, arp_type |-> "ETHER", vlan |-> 7] )

IfIndexes == DOMAIN Netdevs

(* ni_netdev_by_index: the interface in a sequence of its own, or the     *)
(* empty sequence (NULL) when the mirror does not know the index          *)
ni_netdev_by_index(ifindex) ==
    IF ifindex \in IfIndexes THEN <<Netdevs[ifindex]>> ELSE <<>>

(* What an uninitialized uint32_t on the stack may hold *)
Indeterminate ==
    { <<0, 0, 0, 0>>, <<255, 255, 255, 255>>, <<101, 116, 104, 48>> }

---------------------------------------------------------------------------
(* The device record *)

ZeroRetrans ==
    [delay |-> 0, start |-> NULL, count |-> 0, jitter |-> 0,
     params |-> [timeout |-> 0, nretries |-> 0,
                 jitter |-> [min |-> 0, max |-> 0]],
     deadline |-> NULL, duration |-> 0]

(* A device as xcalloc returns it: every field zero *)
ZeroDev ==
    [users |-> 0, ifname |-> <<>>, ifindex |-> 0, lladdr |-> NULL,
     iaid |-> <<0, 0, 0, 0>>,
     start_time |-> NULL, fsm_state |-> "INIT", timer |-> NULL,
     fail_on_timeout |-> FALSE, failed |-> FALSE,
     config |-> <<>>, request |-> NULL, lease |-> NULL,
     best_offer |-> [weight |-> 0, lease |-> NULL],
     message |-> [allocated |-> FALSE, count |-> 0], sock |-> FALSE,
     retrans |-> ZeroRetrans, xid |-> 0]

Live(w) == DOMAIN w.dev \ w.freed

---------------------------------------------------------------------------
(* IAID derivation *)

(* The uint32_t tmp after memcpy(&tmp, dev->ifname, len % sizeof(tmp)):     *)
(* tmp is not initialized, so the bytes memcpy does not write keep          *)
(* whatever the stack held (garbage).                                       *)
IaidScratch(ifname, garbage) == Memcpy(garbage, ifname, Len(ifname) % 4)

(* ni_dhcp6_device_iaid: [rv, iaid]; iaid is the caller's value when the    *)
(* function fails before writing it.                                        *)
ni_dhcp6_device_iaid(ifname, ifindex, old, garbage) ==
    LET found == ni_netdev_by_index(ifindex) IN
    IF found = <<>> THEN [rv |-> -1, iaid |-> old]
    ELSE LET ifp == found[1] IN
    IF Len(ifp.hwaddr) > 4
    THEN [rv |-> 0,
          iaid |-> Memcpy(Word(0), SubSeq(ifp.hwaddr, Len(ifp.hwaddr) - 3,
                                          Len(ifp.hwaddr)), 4)]
    ELSE IF Len(ifname) > 0
    THEN [rv |-> 0,
          iaid |-> Xor32(Xor32(Xor32(Word(0), IaidScratch(ifname, garbage)),
                               IF ifp.vlan # NULL /\ ifp.vlan > 0
                               THEN Word(ifp.vlan) ELSE Word(0)),
                         Word(ifindex))]
    ELSE [rv |-> -1, iaid |-> Word(0)]

---------------------------------------------------------------------------
(* The state as one record, and its parts written back *)

(* What the operations of one step report about themselves; it is the    *)
(* part of obs that the properties read.                                  *)
NoLog ==
    [armed |-> FALSE, disarmed |-> FALSE, advanced |-> FALSE,
     arm_state |-> "INIT", arm_count |-> 0, irt |-> 0, rt |-> 0,
     win |-> [min |-> 0, max |-> 0], delay_timer |-> 0, sent |-> 0,
     preferred |-> <<>>, default_duid |-> <<>>, duid_src |-> "none",
     generated |-> FALSE, saved |-> FALSE, duid |-> <<>>,
     warned |-> FALSE, save_called |-> FALSE, nascent |-> "none",
     waiting |-> FALSE, fsm_started |-> FALSE, send_failed |-> 0,
     refused |-> 0, fsm_timer |-> 0, rearmed |-> FALSE, lookup |-> <<>>,
     match |-> FALSE, weight |-> 0, event |-> "", addr |-> <<>>,
     timed_out |-> FALSE, name |-> <<>>, request |-> NULL]

W ==
    [dev |-> dev, active |-> ni_dhcp6_active, freed |-> freed,
     nfree |-> nfree, lease_files |-> lease_files, now |-> now,
     store |-> duid_store, kernel |-> kernel, timers |-> fsm_timers,
     log |-> NoLog]

Becomes(w) ==
    /\ dev' = w.dev
    /\ ni_dhcp6_active' = w.active
    /\ freed' = w.freed
    /\ nfree' = w.nfree
    /\ lease_files' = w.lease_files
    /\ now' = w.now
    /\ duid_store' = w.store
    /\ kernel' = w.kernel
    /\ fsm_timers' = w.timers

Objs == 1..MaxObjs

(* the step of entry point op on device d ends with r = [rv, w] *)
Returns(op, d, r) ==
    /\ Becomes(r.w)
    /\ obs' = [op |-> op, d |-> d, rv |-> r.rv, log |-> r.w.log]

---------------------------------------------------------------------------
(* Collaborators of device.c: leases, requests, socket, timer *)

(* ni_addrconf_dhcp6_lease_free: free(NULL) does nothing *)
ni_addrconf_dhcp6_lease_free(w, lease) ==
    IF lease = NULL THEN w ELSE [w EXCEPT !.nfree.lease[lease] = @ + 1]

ni_dhcp6_request_free(w, request) ==
    IF request = NULL THEN w ELSE [w EXCEPT !.nfree.request[request] = @ + 1]

ni_addrconf_lease_file_remove(w, ifname) ==
    [w EXCEPT !.lease_files = @ \ {ifname}]

ni_dhcp6_mcast_socket_close(w, d) == [w EXCEPT !.dev[d].sock = FALSE]

(* ni_timer_register, ni_timer_cancel: a timer that fires for device d   *)
(* joins or leaves the live timers                                        *)
ni_timer_register(w, d) == [w EXCEPT !.timers = @ (+) SetToBag({d})]

ni_timer_cancel(w, d) == [w EXCEPT !.timers = @ (-) SetToBag({d})]

(* ni_dhcp6_fsm_set_timeout_msec: the timer the device holds is armed    *)
(* again, a device that holds none registers one                          *)
ni_dhcp6_fsm_set_timeout_msec(w, d, msec) ==
    [(IF w.dev[d].timer # NULL THEN w ELSE ni_timer_register(w, d))
       EXCEPT !.dev[d].timer = msec,
              !.log.fsm_timer = msec,
              !.log.rearmed = (w.dev[d].timer # NULL)]

(* the FSM timer of the device expires: it is no longer live and the     *)
(* device no longer holds it                                              *)
FsmTimerExpired(w, d) ==
    [ni_timer_cancel(w, d) EXCEPT !.dev[d].timer = NULL]

---------------------------------------------------------------------------
(* Cleanup functions *)

(* forgets the timer without cancelling it *)
CloseForgetsTimer(w, d) ==
    [ni_dhcp6_mcast_socket_close(w, d)
       EXCEPT !.dev[d].timer = NULL,
              !.log.warned = (w.dev[d].timer # NULL)]

ni_dhcp6_device_close(w, d) ==
    LET w1 == ni_dhcp6_mcast_socket_close(w, d) IN
    IF w1.dev[d].timer # NULL
    THEN [ni_timer_cancel(w1, d)
            EXCEPT !.dev[d].timer = NULL, !.log.warned = TRUE]
    ELSE w1

ni_dhcp6_device_set_request(w, d, request) ==
    LET w1 == IF w.dev[d].request # NULL
              THEN ni_dhcp6_request_free(w, w.dev[d].request)
              ELSE w
    IN [w1 EXCEPT !.dev[d].request = request]

(* the old config is freed; a config is a value here, in a sequence of   *)
(* its own, and <<>> is the NULL config                                  *)
ni_dhcp6_device_set_config(w, d, config) ==
    [w EXCEPT !.dev[d].config = config]

(* frees the lease of the device whatever the new one is *)
SetLeaseFreesAlways(w, d, lease) ==
    [ni_addrconf_dhcp6_lease_free(w, w.dev[d].lease) EXCEPT !.dev[d].lease = lease]

ni_dhcp6_device_set_lease(w, d, lease) ==
    IF w.dev[d].lease # lease
    THEN [ni_addrconf_dhcp6_lease_free(w, w.dev[d].lease) EXCEPT !.dev[d].lease = lease]
    ELSE w

ni_dhcp6_device_alloc_buffer(w, d) ==
    [w EXCEPT !.dev[d].message = [allocated |-> TRUE, count |-> 0]]

ni_dhcp6_device_clear_buffer(w, d) == [w EXCEPT !.dev[d].message.count = 0]

ni_dhcp6_device_drop_buffer(w, d) ==
    [w EXCEPT !.dev[d].message = [allocated |-> FALSE, count |-> 0]]

ni_dhcp6_device_drop_lease(w, d) ==
    LET lease == w.dev[d].lease IN
    IF lease # NULL
    THEN LET w1 == ni_addrconf_lease_file_remove(w, w.dev[d].ifname)
             w2 == ni_addrconf_dhcp6_lease_free(w1, lease)
         IN [w2 EXCEPT !.dev[d].lease = NULL]
    ELSE w

ni_dhcp6_device_drop_best_offer(w, d) ==
    LET w1 == [w EXCEPT !.dev[d].best_offer.weight = -1]
        w2 == IF w1.dev[d].best_offer.lease # NULL
              THEN ni_addrconf_dhcp6_lease_free(w1, w1.dev[d].best_offer.lease)
              ELSE w1
    IN [w2 EXCEPT !.dev[d].best_offer.lease = NULL]

StopKeepsTimer(w, d) ==
    LET w1 == ni_dhcp6_device_drop_lease(w, d)
        w2 == ni_dhcp6_device_drop_best_offer(w1, d)
        w3 == [w2 EXCEPT !.dev[d].fsm_state = "INIT"]
        w4 == ni_dhcp6_mcast_socket_close(w3, d)
        w5 == ni_dhcp6_device_set_config(w4, d, <<>>)
    IN ni_dhcp6_device_set_request(w5, d, NULL)

ni_dhcp6_device_stop(w, d) ==
    LET w1 == ni_dhcp6_device_drop_lease(w, d)
        w2 == ni_dhcp6_device_drop_best_offer(w1, d)
        w3 == [w2 EXCEPT !.dev[d].fsm_state = "INIT"]
        w4 == ni_dhcp6_device_close(w3, d)
        w5 == ni_dhcp6_device_set_config(w4, d, <<>>)
    IN ni_dhcp6_device_set_request(w5, d, NULL)

(* the list without its first occurrence of d *)
RECURSIVE Unlink(_, _)
Unlink(list, d) ==
    IF list = <<>> THEN <<>>
    ELSE IF Head(list) = d THEN Tail(list)
    ELSE <<Head(list)>> \o Unlink(Tail(list), d)

FreeKeepsLink(w, d) ==
    LET w1 == ni_dhcp6_device_drop_buffer(w, d)
        w2 == ni_dhcp6_device_drop_lease(w1, d)
        w3 == ni_dhcp6_device_drop_best_offer(w2, d)
        w4 == ni_dhcp6_device_close(w3, d)
        w5 == ni_dhcp6_device_set_config(w4, d, <<>>)
        w6 == ni_dhcp6_device_set_request(w5, d, NULL)
    IN [w6 EXCEPT !.dev[d].ifname = <<>>,
                  !.dev[d].ifindex = 0,
                  !.freed = @ \cup {d}]

ni_dhcp6_device_free(w, d) ==
    LET w1 == ni_dhcp6_device_drop_buffer(w, d)
        w2 == ni_dhcp6_device_drop_lease(w1, d)
        w3 == ni_dhcp6_device_drop_best_offer(w2, d)
        w4 == ni_dhcp6_device_close(w3, d)
        w5 == ni_dhcp6_device_set_config(w4, d, <<>>)
        w6 == ni_dhcp6_device_set_request(w5, d, NULL)
    IN [w6 EXCEPT !.dev[d].ifname = <<>>,
                  !.dev[d].ifindex = 0,
                  !.active = Unlink(@, d),
                  !.freed = @ \cup {d}]

---------------------------------------------------------------------------
(* Create and look up device handles, reference counting *)

ni_dhcp6_device_new(w, ifname, ifindex, garbage) ==
    LET d == Cardinality(DOMAIN w.dev) + 1
        d1 == [ZeroDev EXCEPT !.users = 1, !.ifname = ifname,
                              !.ifindex = ifindex]
        d2 == [d1 EXCEPT !.iaid =
                 ni_dhcp6_device_iaid(ifname, ifindex, d1.iaid, garbage).iaid,
                         !.start_time = w.now,
                         !.fsm_state = "INIT"]
    IN [w EXCEPT !.dev = (d :> d2) @@ @,
                 !.active = Append(@, d)]

RECURSIVE FirstWithIndex(_, _, _)
FirstWithIndex(w, list, ifindex) ==
    IF list = <<>> THEN NULL
    ELSE IF w.dev[Head(list)].ifindex = ifindex THEN Head(list)
    ELSE FirstWithIndex(w, Tail(list), ifindex)

ni_dhcp6_device_by_index(w, ifindex) == FirstWithIndex(w, w.active, ifindex)

ni_dhcp6_device_get(w, d) == [w EXCEPT !.dev[d].users = @ + 1]

PutFreesEarly(w, d) ==
    LET w1 == [w EXCEPT !.dev[d].users = @ - 1] IN
    IF w1.dev[d].users <= 1 THEN ni_dhcp6_device_free(w1, d) ELSE w1

ni_dhcp6_device_put(w, d) ==
    LET w1 == [w EXCEPT !.dev[d].users = @ - 1] IN
    IF w1.dev[d].users = 0 THEN ni_dhcp6_device_free(w1, d) ELSE w1

---------------------------------------------------------------------------
(* Timeouts and jitter (timer code of the repository, outside device.c)   *)

(* the outcomes of random() that the model tells apart: the lowest and    *)
(* the highest value of the jitter window                                 *)
Rand == {"min", "max"}

(* ni_dhcp6_jitter_rebase: lower and upper are tenths of a percent of msec *)
ni_dhcp6_jitter_rebase(msec, lower, upper) ==
    [min |-> IF lower < 0 THEN 0 - ((msec * (0 - lower)) \div 1000)
                          ELSE (msec * lower) \div 1000,
     max |-> IF upper < 0 THEN 0 - ((msec * (0 - upper)) \div 1000)
                          ELSE (msec * upper) \div 1000]

(* ni_timeout_randomize: timeout plus a value drawn from the window *)
ni_timeout_randomize(timeout, jitter, rnd) ==
    IF jitter.min < jitter.max
    THEN timeout + (IF rnd = "min" THEN jitter.min ELSE jitter.max)
    ELSE timeout

(* ni_timeout_arm_msec: the randomized timeout; deadline = now + timeout *)
ni_timeout_arm_msec(w, d, rnd) ==
    LET params == w.dev[d].retrans.params
        timeout == ni_timeout_randomize(params.timeout, params.jitter, rnd)
    IN [rv |-> timeout,
        w |-> [w EXCEPT !.dev[d].retrans.deadline = w.now + timeout]]

(* ni_timeout_recompute: FALSE when no retry is left; else one retry is   *)
(* used up and the timeout doubles (RT = 2*RTprev + ...)                  *)
ni_timeout_recompute(w, d) ==
    IF w.dev[d].retrans.params.nretries = 0
    THEN [rv |-> FALSE, w |-> w]
    ELSE [rv |-> TRUE,
          w |-> [w EXCEPT !.dev[d].retrans.params.nretries = @ - 1,
                          !.dev[d].retrans.params.timeout = 2 * @]]

(* ni_dhcp6_socket_send: what the socket reports for a message of cnt    *)
(* bytes                                                                  *)
SendResults == {"sent", "error", "short"}

ni_dhcp6_socket_send(cnt, send) ==
    CASE send = "sent" -> cnt
      [] send = "short" -> cnt - 1
      [] OTHER -> -1

---------------------------------------------------------------------------
(* Uptime *)

UptimeUnclamped(w, d, clamp) ==
    IF w.dev[d].retrans.start # NULL /\ w.now > w.dev[d].retrans.start
    THEN (w.now - w.dev[d].retrans.start) \div 10
    ELSE 0

ni_dhcp6_device_uptime(w, d, clamp) ==
    LET uptime == IF /\ w.dev[d].retrans.start # NULL
                     /\ w.now > w.dev[d].retrans.start
                  THEN (w.now - w.dev[d].retrans.start) \div 10
                  ELSE 0
    IN IF uptime < clamp THEN uptime ELSE clamp

---------------------------------------------------------------------------
(* Send path *)

(* "dev->retrans.count++; ...; clear_buffer(dev); return 0" *)
TransmitSent(w, d) ==
    [rv |-> 0,
     w |-> ni_dhcp6_device_clear_buffer(
              [w EXCEPT !.dev[d].retrans.count = @ + 1,
                        !.log.sent = @ + 1], d)]

(* "mcast_socket_close(dev); clear_buffer(dev); return -1" *)
TransmitFailed(w, d) ==
    [rv |-> -1,
     w |-> ni_dhcp6_device_clear_buffer(
              ni_dhcp6_mcast_socket_close(
                  [w EXCEPT !.log.send_failed = @ + 1], d), d)]

(* "Cannot send empty DHCPv6 message packet" *)
TransmitRefused(w) == [rv |-> -1, w |-> [w EXCEPT !.log.refused = @ + 1]]

(* counts the attempt, not the success *)
TransmitCountsAttempts(w, d, send) ==
    IF w.dev[d].message.count = 0
    THEN TransmitRefused(w)
    ELSE IF ni_dhcp6_socket_send(w.dev[d].message.count, send)
               # w.dev[d].message.count
    THEN TransmitFailed([w EXCEPT !.dev[d].retrans.count = @ + 1], d)
    ELSE TransmitSent(w, d)

(* leaves the message in the buffer when the send failed *)
TransmitKeepsMessage(w, d, send) ==
    IF w.dev[d].message.count = 0
    THEN TransmitRefused(w)
    ELSE IF ni_dhcp6_socket_send(w.dev[d].message.count, send)
               # w.dev[d].message.count
    THEN [rv |-> -1,
          w |-> ni_dhcp6_mcast_socket_close(
                    [w EXCEPT !.log.send_failed = @ + 1], d)]
    ELSE TransmitSent(w, d)

ni_dhcp6_device_transmit(w, d, send) ==
    IF w.dev[d].message.count = 0
    THEN TransmitRefused(w)
    ELSE IF \/ ni_dhcp6_socket_send(w.dev[d].message.count, send) < 0
            \/ ni_dhcp6_socket_send(w.dev[d].message.count, send)
                  # w.dev[d].message.count
    THEN TransmitFailed(w, d)
    ELSE TransmitSent(w, d)

---------------------------------------------------------------------------
(* Retransmission scheduler *)

ni_dhcp6_device_transmit_arm_delay(w, d, rnd) ==
    IF w.dev[d].retrans.delay = 0
    THEN [rv |-> FALSE, w |-> w]
    ELSE LET jitter == [min |-> 0 - w.dev[d].retrans.jitter,
                        max |-> 0 + w.dev[d].retrans.jitter]
             delay == ni_timeout_randomize(w.dev[d].retrans.delay, jitter, rnd)
         IN [rv |-> TRUE,
             w |-> [ni_dhcp6_fsm_set_timeout_msec(w, d, delay)
                      EXCEPT !.log.delay_timer = delay]]

(* retransmit_arm from "Leave, when retransmissions aren't enabled" on *)
RetransmitArmTimeout(w1, d, rnd) ==
    LET r == w1.dev[d].retrans IN
    IF r.params.nretries = 0 THEN w1
    ELSE IF w1.dev[d].fsm_state = "SELECTING" /\ r.count = 1
    THEN LET w2 == [w1 EXCEPT !.dev[d].retrans.params.jitter =
                        ni_dhcp6_jitter_rebase(r.params.timeout, 0,
                                               0 + r.jitter)]
             a == ni_timeout_arm_msec(w2, d, rnd)
             w3 == [a.w EXCEPT !.dev[d].retrans.params.timeout = a.rv,
                               !.log.irt = r.params.timeout,
                               !.log.rt = a.rv,
                               !.log.win = w2.dev[d].retrans.params.jitter]
         IN ni_dhcp6_fsm_set_timeout_msec(w3, d,
                                          w3.dev[d].retrans.params.timeout)
    ELSE LET w2 == [w1 EXCEPT !.dev[d].retrans.params.jitter =
                        ni_dhcp6_jitter_rebase(r.params.timeout,
                                               0 - r.jitter, 0 + r.jitter)]
             a == ni_timeout_arm_msec(w2, d, rnd)
             w3 == [a.w EXCEPT !.dev[d].retrans.params.timeout = a.rv,
                               !.log.irt = r.params.timeout,
                               !.log.rt = a.rv,
                               !.log.win = w2.dev[d].retrans.params.jitter]
         IN IF w3.dev[d].retrans.duration # 0
            THEN ni_dhcp6_fsm_set_timeout_msec(w3, d,
                                               w3.dev[d].retrans.duration)
            ELSE w3

ArmKeepsDelay(w, d, rnd) ==
    RetransmitArmTimeout(
        [w EXCEPT !.dev[d].retrans.start = w.now,
                  !.log.armed = TRUE,
                  !.log.arm_state = w.dev[d].fsm_state,
                  !.log.arm_count = w.dev[d].retrans.count], d, rnd)

ni_dhcp6_device_retransmit_arm(w, d, rnd) ==
    RetransmitArmTimeout(
        [w EXCEPT !.dev[d].retrans.delay = 0,
                  !.dev[d].retrans.start = w.now,
                  !.log.armed = TRUE,
                  !.log.arm_state = w.dev[d].fsm_state,
                  !.log.arm_count = w.dev[d].retrans.count], d, rnd)

ni_dhcp6_device_transmit_start(w, d, rnd, send) ==
    ni_dhcp6_device_transmit(ni_dhcp6_device_retransmit_arm(w, d, rnd), d, send)

(* transmits although the initial delay was scheduled *)
TransmitInitIgnoresDelay(w, d, rnd, send) ==
    ni_dhcp6_device_transmit_start(
        ni_dhcp6_device_transmit_arm_delay(w, d, rnd).w, d, rnd, send)

ni_dhcp6_device_transmit_init(w, d, rnd, send) ==
    LET a == ni_dhcp6_device_transmit_arm_delay(w, d, rnd) IN
    IF a.rv THEN [rv |-> 0, w |-> a.w]
    ELSE ni_dhcp6_device_transmit_start(w, d, rnd, send)

ni_dhcp6_device_retransmit_disarm(w, d) ==
    [w EXCEPT !.dev[d].xid = 0,
              !.dev[d].retrans = ZeroRetrans,
              !.log.disarmed = TRUE]

ni_dhcp6_device_retransmit_advance(w, d, rnd) ==
    LET c == ni_timeout_recompute(w, d) IN
    IF c.rv
    THEN LET old_timeout == c.w.dev[d].retrans.params.timeout
             w1 == [c.w EXCEPT !.dev[d].retrans.params.jitter =
                       ni_dhcp6_jitter_rebase(old_timeout,
                                              0 - c.w.dev[d].retrans.jitter,
                                              0 + c.w.dev[d].retrans.jitter)]
             a == ni_timeout_arm_msec(w1, d, rnd)
         IN [rv |-> TRUE,
             w |-> [a.w EXCEPT !.dev[d].retrans.params.timeout = a.rv,
                               !.log.advanced = TRUE,
                               !.log.irt = w.dev[d].retrans.params.timeout,
                               !.log.rt = a.rv,
                               !.log.win = w1.dev[d].retrans.params.jitter]]
    ELSE [rv |-> FALSE, w |-> c.w]

---------------------------------------------------------------------------
(* The message exchanges of the FSM (dhcp6/fsm.c, dhcp6/protocol.c)       *)

(* The timing an exchange starts with: the FSM state, the initial delay,  *)
(* IRT, the retry count, MRD and the jitter base (100 = 10%): a Solicit   *)
(* with and without initial delay, a Request, a Confirm (delay and MRD)   *)
(* and a message that is sent once                                        *)
Timing(state, delay, nretries, duration) ==
    [state |-> state, delay |-> delay, irt |-> 1000, nretries |-> nretries,
     duration |-> duration, jitter |-> 100]

Exchanges ==
    { Timing("SELECTING", 1000, MaxRetries, 0),
      Timing("SELECTING", 0, MaxRetries, 0),
      Timing("REQUESTING", 0, MaxRetries, 0),
      Timing("CONFIRMING", 1000, MaxRetries, 10000),
      Timing("RELEASING", 0, 0, 0) }

(* the FSM builds a message: the buffer holds it, the socket is open *)
FsmBuildMessage(w, d) ==
    [w EXCEPT !.dev[d].message.count = 1, !.dev[d].sock = TRUE]

(* a new exchange: the retransmission block is reset to the timing of    *)
(* the message, a transaction id is assigned, the message is built and   *)
(* handed to transmit_init                                                *)
FsmExchange(w, d, x, rnd, send) ==
    LET w1 == [w EXCEPT !.dev[d].retrans =
                     [ZeroRetrans EXCEPT !.delay = x.delay,
                                         !.jitter = x.jitter,
                                         !.duration = x.duration,
                                         !.params.timeout = x.irt,
                                         !.params.nretries = x.nretries],
                        !.dev[d].xid = 1,
                        !.dev[d].fsm_state = x.state,
                        !.log.disarmed = TRUE]
    IN ni_dhcp6_device_transmit_init(FsmBuildMessage(w1, d), d, rnd, send)

(* ni_dhcp6_fsm_retransmit: the message is built again and transmitted *)
ni_dhcp6_fsm_retransmit(w, d, send) ==
    ni_dhcp6_device_transmit(FsmBuildMessage(w, d), d, send)

(* "if (ni_dhcp6_fsm_retransmit(dev) < 0) return -1; return 0" *)
RetransmitResult(t) ==
    IF t.rv < 0 THEN [rv |-> -1, w |-> t.w] ELSE [rv |-> 0, w |-> t.w]

(* disarms also when the FSM reports an error *)
RetransmitGivesUp(w, d, rnd, send) ==
    LET a == ni_dhcp6_device_retransmit_advance(w, d, rnd) IN
    IF ~a.rv
    THEN [rv |-> -1, w |-> ni_dhcp6_device_retransmit_disarm(a.w, d)]
    ELSE LET t == ni_dhcp6_fsm_retransmit(a.w, d, send) IN
         IF t.rv < 0
         THEN [rv |-> -1, w |-> ni_dhcp6_device_retransmit_disarm(t.w, d)]
         ELSE [rv |-> 0, w |-> t.w]

ni_dhcp6_device_retransmit(w, d, rnd, send) ==
    LET a == ni_dhcp6_device_retransmit_advance(w, d, rnd) IN
    IF ~a.rv
    THEN [rv |-> -1, w |-> ni_dhcp6_device_retransmit_disarm(a.w, d)]
    ELSE RetransmitResult(ni_dhcp6_fsm_retransmit(a.w, d, send))

---------------------------------------------------------------------------
(* DUIDs in text form (DUID module of the repository, outside device.c).  *)
(* A character is a hex digit 0..15, the colon (16) or another character  *)
(* (17); a DUID is printed as two digits per byte, the bytes separated by *)
(* colons.                                                                *)

RECURSIVE ni_duid_format_hex(_)
ni_duid_format_hex(bytes) ==
    IF bytes = <<>> THEN <<>>
    ELSE <<Head(bytes) \div 16, Head(bytes) % 16>> \o
         (IF Tail(bytes) = <<>> THEN <<>>
          ELSE <<16>> \o ni_duid_format_hex(Tail(bytes)))

RECURSIVE ParseHexBytes(_)
ParseHexMore(byte, more) ==
    IF more.ok THEN [ok |-> TRUE, bytes |-> <<byte>> \o more.bytes]
    ELSE [ok |-> FALSE, bytes |-> <<>>]

ParseHexBytes(str) ==
    IF Len(str) < 2 \/ str[1] > 15 \/ str[2] > 15
    THEN [ok |-> FALSE, bytes |-> <<>>]
    ELSE IF Len(str) = 2
    THEN [ok |-> TRUE, bytes |-> <<(16 * str[1]) + str[2]>>]
    ELSE IF str[3] # 16 THEN [ok |-> FALSE, bytes |-> <<>>]
    ELSE ParseHexMore((16 * str[1]) + str[2],
                      ParseHexBytes(SubSeq(str, 4, Len(str))))

(* ni_duid_parse_hex: the bytes, <<>> when the text is not a DUID *)
ni_duid_parse_hex(str) == ParseHexBytes(str).bytes

(* hardware type numbers of if_arp.h, as the two bytes a DUID carries *)
ArpTypeBytes(arp_type) ==
    IF arp_type = "ETHER" THEN <<0, 1>> ELSE <<3, 4>>

(* ni_duid_init_llt: type 1, hardware type, time, link-layer address *)
ni_duid_init_llt(arp_type, hwaddr, time) ==
    IF hwaddr = <<>> THEN <<>>
    ELSE <<0, 1>> \o ArpTypeBytes(arp_type) \o Word(time) \o hwaddr

(* ni_uuid_generate and ni_duid_init_uuid: type 4 and the random uuid *)
Uuids == {<<170>>, <<187>>}

ni_duid_init_uuid(uuid) == <<0, 4>> \o uuid

(* ni_dhcp6_load_duid: [rv, duid] from the DUID file.  When the file     *)
(* holds no DUID the call reports empty_rv: -1 (there is no file) or 0    *)
(* (the file was read, the DUID stays empty).                             *)
LoadResult(duid, empty_rv) ==
    IF duid = <<>> THEN [rv |-> empty_rv, duid |-> <<>>]
    ELSE [rv |-> 0, duid |-> duid]

ni_dhcp6_load_duid(w, empty_rv) ==
    LoadResult(ni_duid_parse_hex(w.store), empty_rv)

(* ni_dhcp6_save_duid: the DUID file is rewritten, unless writing fails *)
ni_dhcp6_save_duid(w, duid, save_ok) ==
    IF save_ok
    THEN [w EXCEPT !.store = ni_duid_format_hex(duid), !.log.saved = TRUE,
                   !.log.save_called = TRUE]
    ELSE [w EXCEPT !.log.save_called = TRUE]

---------------------------------------------------------------------------
(* DUID derivation *)

(* the loop over the other interfaces of ni_dhcp6_generate_duid *)
RECURSIVE SiblingLlt(_, _, _)
SiblingTry(llt, rest, ifindex, time) ==
    IF llt # <<>> THEN llt ELSE SiblingLlt(rest, ifindex, time)

SiblingLlt(list, ifindex, time) ==
    IF list = <<>> THEN <<>>
    ELSE IF /\ Head(list) # ifindex
            /\ Netdevs[Head(list)].arp_type \in
                  {"ETHER", "IEEE802", "INFINIBAND"}
    THEN SiblingTry(ni_duid_init_llt(Netdevs[Head(list)].arp_type,
                                     Netdevs[Head(list)].hwaddr, time),
                    Tail(list), ifindex, time)
    ELSE SiblingLlt(Tail(list), ifindex, time)

(* the DUID generate_duid settles on: [duid, src] *)
GeneratedDuid(own, sibling, uuid) ==
    IF own # <<>> THEN [duid |-> own, src |-> "llt_own"]
    ELSE IF sibling # <<>> THEN [duid |-> sibling, src |-> "llt_sibling"]
    ELSE [duid |-> ni_duid_init_uuid(uuid), src |-> "uuid"]

(* ni_dhcp6_generate_duid: duid is the caller's when the interface is not *)
(* found                                                                  *)
ni_dhcp6_generate_duid(w, d, duid, uuid) ==
    IF ni_netdev_by_index(w.dev[d].ifindex) = <<>>
    THEN [duid |-> duid, src |-> "none"]
    ELSE GeneratedDuid(
             ni_duid_init_llt(Netdevs[w.dev[d].ifindex].arp_type,
                              Netdevs[w.dev[d].ifindex].hwaddr, w.now),
             SiblingLlt([i \in 1..Cardinality(IfIndexes) |-> i],
                        w.dev[d].ifindex, w.now),
             uuid)

(* ni_dhcp6_config_default_duid: default_hex is the default DUID of the   *)
(* process configuration, <<>> when none is set                           *)
DefaultDuid(duid, parsed) == IF parsed = <<>> THEN duid ELSE parsed

ni_dhcp6_config_default_duid(duid, default_hex) ==
    IF default_hex = <<>> THEN duid
    ELSE DefaultDuid(duid, ni_duid_parse_hex(default_hex))

(* ni_dhcp6_config_init_duid, from its last statement back to its first. *)
(* Each step hands the DUID it has, whether it is to be saved and where  *)
(* it came from to the step that follows it in the code.                 *)

(* "if (len > 0 && save) save_duid(); return len > 0": [rv, duid, w] *)
InitDuidSave(w, duid, save, generated, src, preferred, env) ==
    [rv |-> Len(duid) > 0,
     duid |-> duid,
     w |-> IF Len(duid) > 0 /\ save
           THEN ni_dhcp6_save_duid(
                    [w EXCEPT !.log.preferred = preferred,
                              !.log.default_duid = env.default_duid,
                              !.log.duid_src = src,
                              !.log.generated = generated,
                              !.log.duid = duid], duid, env.save_ok)
           ELSE [w EXCEPT !.log.preferred = preferred,
                          !.log.default_duid = env.default_duid,
                          !.log.duid_src = src,
                          !.log.generated = generated,
                          !.log.duid = duid]]

InitDuidGenerated(w, gen, save, preferred, env) ==
    InitDuidSave(w, gen.duid, save, TRUE, gen.src, preferred, env)

(* "if (len == 0) generate_duid()" *)
InitDuidGenerate(w, d, duid, save, src, preferred, env) ==
    IF duid = <<>>
    THEN InitDuidGenerated(w, ni_dhcp6_generate_duid(w, d, duid, env.uuid),
                           save, preferred, env)
    ELSE InitDuidSave(w, duid, save, FALSE, src, preferred, env)

LoadedStillSaves(w, d, ld, preferred, env) ==
    InitDuidGenerate(w, d, ld.duid, TRUE, "load", preferred, env)

(* "if (load_duid() == 0) save = FALSE" *)
InitDuidLoaded(w, d, ld, preferred, env) ==
    InitDuidGenerate(w, d, ld.duid, ld.rv # 0, "load", preferred, env)

(* "if (len == 0) { load ... }" *)
InitDuidLoad(w, d, duid, src, preferred, env) ==
    IF duid = <<>>
    THEN InitDuidLoaded(w, d, ni_dhcp6_load_duid(w, env.load_rv), preferred,
                        env)
    ELSE InitDuidGenerate(w, d, duid, TRUE, src, preferred, env)

(* "if (len == 0) config_default_duid()" *)
InitDuidDefault(w, d, duid, preferred, env) ==
    IF duid = <<>>
    THEN InitDuidLoad(w, d,
                      ni_dhcp6_config_default_duid(duid, env.default_duid),
                      "default", preferred, env)
    ELSE InitDuidLoad(w, d, duid, "preferred", preferred, env)

(* ni_dhcp6_config_init_duid: [rv, duid, w] *)
ni_dhcp6_config_init_duid(w, d, preferred, env) ==
    InitDuidDefault(w, d,
                    IF preferred # <<>> THEN ni_duid_parse_hex(preferred)
                    ELSE <<>>,
                    preferred, env)

---------------------------------------------------------------------------
(* Link-local address and start of the device *)

SetLladdrTakesTentative(w, d, addr) ==
    IF addr.state = "duplicate" THEN [rv |-> -1, w |-> w]
    ELSE [rv |-> 0, w |-> [w EXCEPT !.dev[d].lladdr = addr.local_addr]]

ni_dhcp6_device_set_lladdr(w, d, addr) ==
    IF addr.state = "duplicate" THEN [rv |-> -1, w |-> w]
    ELSE IF addr.state = "tentative" THEN [rv |-> 1, w |-> w]
    ELSE [rv |-> 0, w |-> [w EXCEPT !.dev[d].lladdr = addr.local_addr]]

(* the loop of ni_dhcp6_device_find_lladdr over the addresses left *)
RECURSIVE FindLladdrLoop(_, _, _, _)
FindLladdrNext(r, d, rest) ==
    IF r.rv = 0 THEN r ELSE FindLladdrLoop(r.w, d, rest, r.rv)

FindLladdrLoop(w, d, addrs, rv) ==
    IF addrs = <<>> THEN [rv |-> rv, w |-> w]
    ELSE IF Head(addrs).family # "INET6" \/ ~Head(addrs).linklocal
    THEN FindLladdrLoop(w, d, Tail(addrs), rv)
    ELSE FindLladdrNext(ni_dhcp6_device_set_lladdr(w, d, Head(addrs)), d,
                        Tail(addrs))

ni_dhcp6_device_find_lladdr(w, d) ==
    IF ni_netdev_by_index(w.dev[d].ifindex) = <<>>
    THEN [rv |-> -1, w |-> w]
    ELSE IF ~w.kernel[w.dev[d].ifindex].link_up
    THEN [rv |-> -1, w |-> w]
    ELSE FindLladdrLoop(w, d, w.kernel[w.dev[d].ifindex].addrs, 1)

(* ni_dhcp6_fsm_start (dhcp6/fsm.c): an Information-Request or a Solicit  *)
(* exchange begins, each after its initial delay                          *)
ni_dhcp6_fsm_start(w, d, rnd, send) ==
    FsmExchange([w EXCEPT !.log.fsm_started = TRUE], d,
                Timing(IF w.dev[d].config[1].info_only
                       THEN "REQUESTING_INFO" ELSE "SELECTING",
                       1000, MaxRetries, 0),
                rnd, send)

ni_dhcp6_device_start(w, d, rnd, send) ==
    IF w.dev[d].config = <<>>
    THEN [rv |-> -1, w |-> w]
    ELSE ni_dhcp6_fsm_start(
             ni_dhcp6_device_alloc_buffer([w EXCEPT !.dev[d].failed = FALSE],
                                          d),
             d, rnd, send)

(* ni_dhcp6_device_is_ready with the interface of the event *)
ni_dhcp6_device_is_ready(w, d) ==
    /\ ni_netdev_by_index(w.dev[d].ifindex) # <<>>
    /\ w.kernel[w.dev[d].ifindex].network_up
    /\ w.dev[d].lladdr # 0

---------------------------------------------------------------------------
(* Handle link and address events *)

DeviceEvents ==
    {"DEVICE_UP", "DEVICE_DOWN", "NETWORK_DOWN", "NETWORK_UP", "LINK_DOWN",
     "LINK_UP"}

AddressEvents == {"ADDRESS_UPDATE", "ADDRESS_DELETE"}

(* NI_EVENT_LINK_DOWN is handled like NI_EVENT_DEVICE_DOWN *)
DeviceEventStopsOnLinkDown(w, d, name, event) ==
    IF event = "DEVICE_UP"
    THEN IF w.dev[d].ifname # name THEN [w EXCEPT !.dev[d].ifname = name]
         ELSE w
    ELSE IF event \in {"DEVICE_DOWN", "LINK_DOWN"}
    THEN ni_dhcp6_device_stop(w, d)
    ELSE w

(* name is ifp->name *)
ni_dhcp6_device_event(w, d, name, event) ==
    CASE event = "DEVICE_UP" ->
            IF w.dev[d].ifname # name THEN [w EXCEPT !.dev[d].ifname = name]
            ELSE w
      [] event = "DEVICE_DOWN" -> ni_dhcp6_device_stop(w, d)
      [] OTHER -> w

(* ni_dhcp6_fsm_address_event (dhcp6/fsm.c): a device that waits in      *)
(* WAIT_READY and is ready after an address update resumes and starts    *)
ni_dhcp6_fsm_address_event(w, d, event, env) ==
    IF /\ event = "ADDRESS_UPDATE"
       /\ w.dev[d].fsm_state = "WAIT_READY"
       /\ ni_dhcp6_device_is_ready(w, d)
    THEN ni_dhcp6_device_start(w, d, env.rnd, env.send).w
    ELSE w

(* an address update takes the place of the address recorded *)
AddressUpdateOverwrites(w, d, event, addr, env) ==
    IF event = "ADDRESS_UPDATE"
    THEN ni_dhcp6_fsm_address_event(
             IF addr.family = "INET6" /\ addr.linklocal
             THEN ni_dhcp6_device_set_lladdr(w, d, addr).w ELSE w,
             d, event, env)
    ELSE IF event = "ADDRESS_DELETE"
    THEN ni_dhcp6_fsm_address_event(
             IF addr.family = "INET6" /\ addr.local_addr = w.dev[d].lladdr
             THEN [w EXCEPT !.dev[d].lladdr = 0] ELSE w,
             d, event, env)
    ELSE w

ni_dhcp6_address_event(w, d, event, addr, env) ==
    IF event = "ADDRESS_UPDATE"
    THEN ni_dhcp6_fsm_address_event(
             IF /\ w.dev[d].lladdr = 0
                /\ addr.family = "INET6" /\ addr.linklocal
             THEN ni_dhcp6_device_set_lladdr(w, d, addr).w ELSE w,
             d, event, env)
    ELSE IF event = "ADDRESS_DELETE"
    THEN ni_dhcp6_fsm_address_event(
             IF addr.family = "INET6" /\ addr.local_addr = w.dev[d].lladdr
             THEN [w EXCEPT !.dev[d].lladdr = 0] ELSE w,
             d, event, env)
    ELSE w

(* the FSM timer expires in WAIT_READY (dhcp6/fsm.c): with               *)
(* fail_on_timeout set the device fails and is stopped                    *)
FsmReadyTimeout(w, d) ==
    IF w.dev[d].fail_on_timeout
    THEN [ni_dhcp6_device_stop(FsmTimerExpired(w, d), d)
            EXCEPT !.dev[d].failed = TRUE,
                   !.dev[d].fail_on_timeout = FALSE,
                   !.log.timed_out = TRUE]
    ELSE [FsmTimerExpired(w, d) EXCEPT !.log.timed_out = TRUE]

---------------------------------------------------------------------------
(* Acquire *)

(* ni_check_domain_name *)
ni_check_domain_name(hostname) == hostname # "bad host"

(* info is the request; env is what the environment decides while the    *)
(* call runs: the default DUID of the process configuration, the uuid    *)
(* drawn, whether the DUID file can be written, the jitter and the       *)
(* result of a send.  The steps of ni_dhcp6_acquire, last to first.      *)

(* the device waits for readiness without a timer *)
AcquireWaitsUnarmed(w, d, rv, env) ==
    IF rv > 0
    THEN [rv |-> rv,
          w |-> [w EXCEPT !.dev[d].fsm_state = "WAIT_READY",
                          !.dev[d].fail_on_timeout = TRUE,
                          !.log.waiting = TRUE]]
    ELSE ni_dhcp6_device_start(w, d, env.rnd, env.send)

(* "if (rv > 0) { WAIT_READY ... } return ni_dhcp6_device_start(dev)" *)
AcquireStart(w, d, rv, env) ==
    IF rv > 0
    THEN [rv |-> rv,
          w |-> [ni_dhcp6_fsm_set_timeout_msec(
                     [w EXCEPT !.dev[d].fsm_state = "WAIT_READY"],
                     d, NI_DHCP6_WAIT_READY_MSEC)
                   EXCEPT !.dev[d].fail_on_timeout = TRUE,
                          !.log.waiting = TRUE]]
    ELSE ni_dhcp6_device_start(w, d, env.rnd, env.send)

(* "rv = find_lladdr(); if (rv < 0) ...; set_config(dev, config)" *)
AcquireInstallsFirst(f, d, config, env) ==
    IF f.rv < 0
    THEN [rv |-> f.rv,
          w |-> ni_dhcp6_device_set_config(
                    [f.w EXCEPT !.log.nascent = "installed"], d, <<config>>)]
    ELSE AcquireStart(ni_dhcp6_device_set_config(
                          [f.w EXCEPT !.log.nascent = "installed"], d,
                          <<config>>),
                      d, f.rv, env)

AcquireLladdr(f, d, config, env) ==
    IF f.rv < 0
    THEN [rv |-> f.rv, w |-> [f.w EXCEPT !.log.nascent = "freed"]]
    ELSE AcquireStart(ni_dhcp6_device_set_config(
                          [f.w EXCEPT !.log.nascent = "installed"], d,
                          <<config>>),
                      d, f.rv, env)

(* the config that acquire builds from the request *)
AcquireConfig(info, duid, iaid) ==
    [info_only |-> info.info_only,
     client_duid |-> duid,
     ia_list |-> IF info.info_only THEN <<>> ELSE <<iaid>>,
     hostname |-> IF Len(info.hostname) > 0 /\
                     ni_check_domain_name(info.hostname)
                  THEN info.hostname ELSE ""]

(* "if (!config_init_duid()) { free(config); return -1; }" *)
AcquireDuid(c, d, info, env) ==
    IF ~c.rv THEN [rv |-> -1, w |-> [c.w EXCEPT !.log.nascent = "freed"]]
    ELSE AcquireLladdr(ni_dhcp6_device_find_lladdr(c.w, d), d,
                       AcquireConfig(info, c.duid, c.w.dev[d].iaid), env)

ni_dhcp6_acquire(w, d, info, env) ==
    AcquireDuid(ni_dhcp6_config_init_duid(w, d, info.clientid, env), d,
                info, env)

---------------------------------------------------------------------------
(* Preferred servers of the process configuration *)

(* one entry of the loop of ni_dhcp6_config_server_preference: a server  *)
(* id of length 0 and an address of family other than AF_INET6 (0) are   *)
(* not configured; addr and duid are NULL (0, <<>>) or the candidate's    *)
PreferenceMatch(pref, addr, duid) ==
    LET match == /\ Len(pref.serverid) > 0
                 /\ duid # <<>> /\ duid = pref.serverid
    IN IF pref.address # 0
       THEN addr # NULL /\ addr = pref.address
       ELSE match

RECURSIVE ni_dhcp6_config_server_preference(_, _, _, _)
ni_dhcp6_config_server_preference(prefs, addr, duid, weight) ==
    IF prefs = <<>> THEN [rv |-> FALSE, weight |-> weight]
    ELSE IF PreferenceMatch(Head(prefs), addr, duid)
    THEN [rv |-> TRUE, weight |-> Head(prefs).weight]
    ELSE ni_dhcp6_config_server_preference(Tail(prefs), addr, duid, weight)

---------------------------------------------------------------------------
(* What a step leaves in obs: the entry point, the device, the value      *)
(* returned and the log of the operations it ran                          *)
Obs(op, d, rv, log) == [op |-> op, d |-> d, rv |-> rv, log |-> log]

---------------------------------------------------------------------------
(* Initial state: no device, an empty DUID store *)

W0 ==
    [dev |-> <<>>, active |-> <<>>, freed |-> {},
     nfree |-> [lease |-> [o \in Objs |-> 0], request |-> [o \in Objs |-> 0]],
     lease_files |-> {}, now |-> 1, store |-> <<>>,
     kernel |-> [i \in IfIndexes |->
                   [link_up |-> TRUE, network_up |-> TRUE, addrs |-> <<>>]],
     timers |-> EmptyBag, log |-> NoLog]

(* the state is w *)
Becomes0(w) ==
    /\ dev = w.dev
    /\ ni_dhcp6_active = w.active
    /\ freed = w.freed
    /\ nfree = w.nfree
    /\ lease_files = w.lease_files
    /\ now = w.now
    /\ duid_store = w.store
    /\ kernel = w.kernel
    /\ fsm_timers = w.timers

Init ==
    /\ Becomes0(W0)
    /\ obs = Obs("init", 0, 0, NoLog)

---------------------------------------------------------------------------
(* Entry points of the device registry *)

New(ifindex, garbage) ==
    /\ Cardinality(DOMAIN dev) < MaxDevs
    /\ Becomes(ni_dhcp6_device_new(W, Netdevs[ifindex].name, ifindex, garbage))
    /\ obs' = Obs("new", Cardinality(DOMAIN dev) + 1, 0, NoLog)

(* ni_assert(dev->users) aborts the process when users is 0 *)
Get(d) ==
    /\ d \in Live(W)
    /\ dev[d].users # 0
    /\ dev[d].users < MaxUsers
    /\ Becomes(ni_dhcp6_device_get(W, d))
    /\ obs' = Obs("get", d, 0, NoLog)

Put(d) ==
    /\ d \in Live(W)
    /\ dev[d].users # 0
    /\ Becomes(ni_dhcp6_device_put(W, d))
    /\ obs' = Obs("put", d, 0, NoLog)

(* ni_dhcp6_device_iaid called twice on the same device *)
Iaid(d, garbage1, garbage2) ==
    /\ d \in Live(W)
    /\ obs' = [op |-> "iaid", d |-> d, rv |-> 0, log |-> NoLog,
               run1 |-> ni_dhcp6_device_iaid(dev[d].ifname, dev[d].ifindex,
                                             Word(0), garbage1),
               run2 |-> ni_dhcp6_device_iaid(dev[d].ifname, dev[d].ifindex,
                                             Word(0), garbage2)]
    /\ UNCHANGED <<dev, ni_dhcp6_active, freed, nfree, lease_files, now,
                   duid_store, kernel, fsm_timers>>

NextDevices ==
    \/ \E i \in IfIndexes, g \in Indeterminate : New(i, g)
    \/ \E d \in DOMAIN dev : Get(d)
    \/ \E d \in DOMAIN dev : Put(d)

SpecDevices == Init /\ [][NextDevices]_vars

NextIaid ==
    \/ \E i \in IfIndexes, g \in Indeterminate : New(i, g)
    \/ \E d \in DOMAIN dev, g1 \in Indeterminate, g2 \in Indeterminate :
          Iaid(d, g1, g2)

SpecIaid == Init /\ [][NextIaid]_vars

---------------------------------------------------------------------------
(* Entry points of the retransmission scheduler, for one device that the  *)
(* registry holds                                                          *)

InitRetrans ==
    /\ Becomes0(ni_dhcp6_device_new(W0, Netdevs[2].name, 2, <<0, 0, 0, 0>>))
    /\ obs = Obs("new", 1, 0, NoLog)

(* the FSM starts a message exchange *)
Exchange(d, x, rnd, send) ==
    /\ d \in Live(W)
    /\ Returns("exchange", d, FsmExchange(W, d, x, rnd, send))

(* the timer of the initial delay expires: the FSM starts to transmit *)
DelayExpired(d, rnd, send) ==
    /\ d \in Live(W)
    /\ dev[d].timer # NULL
    /\ dev[d].retrans.delay > 0
    /\ Returns("transmit_start", d, ni_dhcp6_device_transmit_start(
                    FsmTimerExpired(W, d), d, rnd, send))

(* the retransmission deadline is reached *)
Retransmit(d, rnd, send) ==
    /\ d \in Live(W)
    /\ dev[d].retrans.deadline # NULL
    /\ Returns("retransmit", d, ni_dhcp6_device_retransmit(W, d, rnd, send))

(* the FSM ends the exchange (a reply arrived, or it gave up) *)
Disarm(d) ==
    /\ d \in Live(W)
    /\ dev[d].xid # 0
    /\ Returns("disarm", d,
               [rv |-> 0, w |-> ni_dhcp6_device_retransmit_disarm(W, d)])

TickSteps == {10}

Tick(step) ==
    /\ now + step <= MaxTime
    /\ now' = now + step
    /\ obs' = Obs("tick", 0, 0, NoLog)
    /\ UNCHANGED <<dev, ni_dhcp6_active, freed, nfree, lease_files,
                   duid_store, kernel, fsm_timers>>

NextRetrans ==
    \/ \E d \in DOMAIN dev, x \in Exchanges, rnd \in Rand, send \in SendResults :
          Exchange(d, x, rnd, send)
    \/ \E d \in DOMAIN dev, rnd \in Rand, send \in SendResults :
          DelayExpired(d, rnd, send)
    \/ \E d \in DOMAIN dev, rnd \in Rand, send \in SendResults :
          Retransmit(d, rnd, send)
    \/ \E d \in DOMAIN dev : Disarm(d)
    \/ \E step \in TickSteps : Tick(step)

SpecRetrans == InitRetrans /\ [][NextRetrans]_vars

(* The send path: the scheduler's steps, and a caller that hands the     *)
(* buffer to ni_dhcp6_device_transmit outside an initial delay           *)
Transmit(d, send) ==
    /\ d \in Live(W)
    /\ dev[d].retrans.delay = 0
    /\ Returns("transmit", d, ni_dhcp6_device_transmit(W, d, send))

NextSend ==
    \/ \E d \in DOMAIN dev, x \in Exchanges, rnd \in Rand, send \in SendResults :
          Exchange(d, x, rnd, send)
    \/ \E d \in DOMAIN dev, rnd \in Rand, send \in SendResults :
          DelayExpired(d, rnd, send)
    \/ \E d \in DOMAIN dev, rnd \in Rand, send \in SendResults :
          Retransmit(d, rnd, send)
    \/ \E d \in DOMAIN dev : Disarm(d)
    \/ \E d \in DOMAIN dev, send \in SendResults : Transmit(d, send)
    \/ \E step \in TickSteps : Tick(step)

SpecSend == InitRetrans /\ [][NextSend]_vars

(* The start of a transmission: the FSM begins an exchange, or hands the *)
(* message of an exchange whose retransmission is not armed yet to        *)
(* ni_dhcp6_device_transmit_init again                                    *)
TransmitInit(d, rnd, send) ==
    /\ d \in Live(W)
    /\ dev[d].xid # 0
    /\ dev[d].retrans.start = NULL
    /\ Returns("transmit_init", d,
               ni_dhcp6_device_transmit_init(FsmBuildMessage(W, d), d, rnd,
                                             send))

NextInit ==
    \/ \E d \in DOMAIN dev, x \in Exchanges, rnd \in Rand, send \in SendResults :
          Exchange(d, x, rnd, send)
    \/ \E d \in DOMAIN dev, rnd \in Rand, send \in SendResults :
          TransmitInit(d, rnd, send)
    \/ \E d \in DOMAIN dev, rnd \in Rand, send \in SendResults :
          DelayExpired(d, rnd, send)
    \/ \E d \in DOMAIN dev : Disarm(d)
    \/ \E step \in TickSteps : Tick(step)

SpecInit == InitRetrans /\ [][NextInit]_vars

---------------------------------------------------------------------------
(* Life of one device: requests, leases and offers arrive, the device is  *)
(* asked to acquire and to stop                                           *)

InitDevice ==
    /\ \E i \in IfIndexes :
          Becomes0(ni_dhcp6_device_new(W0, Netdevs[i].name, i, <<0, 0, 0, 0>>))
    /\ obs = Obs("new", 1, 0, NoLog)

(* the requests of the model: clientid is the preferred DUID in text form *)
Requests ==
    { [clientid |-> <<>>, info_only |-> FALSE, hostname |-> ""],
      [clientid |-> <<>>, info_only |-> TRUE, hostname |-> "host"],
      [clientid |-> <<0, 0, 16, 0, 2, 16, 12, 13>>, info_only |-> FALSE,
       hostname |-> "bad host"],
      [clientid |-> <<0, 0, 16, 17>>, info_only |-> FALSE, hostname |-> ""] }

Envs ==
    [default_duid : {<<>>, <<0, 0, 16, 0, 3, 16, 10, 11>>}, uuid : Uuids,
     load_rv : {-1, 0}, save_ok : BOOLEAN, rnd : Rand, send : SendResults]

Acquire(d, info, env) ==
    /\ d \in Live(W)
    /\ Returns("acquire", d, ni_dhcp6_acquire(W, d, info, env))

Stop(d) ==
    /\ d \in Live(W)
    /\ Returns("stop", d, [rv |-> 0, w |-> ni_dhcp6_device_stop(W, d)])

(* an object that was never handed to a device *)
Fresh(w, o) ==
    /\ w.nfree.lease[o] = 0
    /\ w.nfree.request[o] = 0
    /\ \A d \in DOMAIN w.dev :
          /\ w.dev[d].lease # o
          /\ w.dev[d].request # o
          /\ w.dev[d].best_offer.lease # o

(* the caller of acquire hands its request to the device *)
SetRequest(d, o) ==
    /\ d \in Live(W)
    /\ Fresh(W, o)
    /\ Becomes(ni_dhcp6_device_set_request(W, d, o))
    /\ obs' = Obs("set_request", d, 0, NoLog)

(* the FSM commits a lease: the lease file is written *)
CommitLease(d, o) ==
    /\ d \in Live(W)
    /\ dev[d].config # <<>>
    /\ Fresh(W, o)
    /\ Becomes([ni_dhcp6_device_set_lease(W, d, o)
                  EXCEPT !.lease_files = @ \cup {dev[d].ifname},
                         !.dev[d].fsm_state = "BOUND"])
    /\ obs' = Obs("commit_lease", d, 0, NoLog)

(* the FSM records the best offer so far *)
Weights == {0, 255}

BestOffer(d, o, weight) ==
    /\ d \in Live(W)
    /\ dev[d].fsm_state = "SELECTING"
    /\ Fresh(W, o)
    /\ Becomes([ni_dhcp6_device_drop_best_offer(W, d)
                  EXCEPT !.dev[d].best_offer =
                            [weight |-> weight, lease |-> o]])
    /\ obs' = Obs("best_offer", d, 0, NoLog)

(* the netlink mirror learns about the link and the addresses of the     *)
(* interface                                                              *)
LinkLocal(state) ==
    [family |-> "INET6", linklocal |-> TRUE, state |-> state,
     local_addr |-> 1]

(* what the mirror may report: link down, link up with a tentative       *)
(* link-local address, with a usable one after a duplicate                *)
KernelStates ==
    { [link_up |-> FALSE, network_up |-> FALSE,
       addrs |-> <<[family |-> "INET6", linklocal |-> FALSE, state |-> "ok",
                    local_addr |-> 2]>>],
      [link_up |-> TRUE, network_up |-> TRUE,
       addrs |-> <<LinkLocal("tentative")>>],
      [link_up |-> TRUE, network_up |-> TRUE,
       addrs |-> <<LinkLocal("duplicate"), LinkLocal("ok")>>] }

NetlinkUpdate(d, k) ==
    /\ d \in Live(W)
    /\ kernel[dev[d].ifindex] # k
    /\ kernel' = [kernel EXCEPT ![dev[d].ifindex] = k]
    /\ obs' = Obs("netlink", d, 0, NoLog)
    /\ UNCHANGED <<dev, ni_dhcp6_active, freed, nfree, lease_files, now,
                   duid_store, fsm_timers>>

(* requests without a preferred DUID, and an environment without a      *)
(* default DUID whose DUID file can be written                            *)
PlainRequests == {info \in Requests : info.clientid = <<>>}

PlainEnvs ==
    {env \in Envs : /\ env.default_duid = <<>>
                    /\ env.load_rv = -1
                    /\ env.save_ok
                    /\ env.uuid = <<170>>
                    /\ env.send = "sent"}

Next ==
    \/ \E d \in DOMAIN dev, info \in PlainRequests, env \in PlainEnvs :
          Acquire(d, info, env)
    \/ \E d \in DOMAIN dev : Stop(d)
    \/ \E d \in DOMAIN dev, o \in Objs : SetRequest(d, o)
    \/ \E d \in DOMAIN dev, o \in Objs : CommitLease(d, o)
    \/ \E d \in DOMAIN dev, o \in Objs, weight \in Weights :
          BestOffer(d, o, weight)
    \/ \E d \in DOMAIN dev, k \in KernelStates : NetlinkUpdate(d, k)
    \/ \E d \in DOMAIN dev, rnd \in Rand, send \in SendResults :
          DelayExpired(d, rnd, send)

Spec == InitRetrans /\ [][Next]_vars

(* DUID derivation over the life of the DUID file: the device of any     *)
(* interface, every request and environment                               *)
NextDuid ==
    \/ \E d \in DOMAIN dev, info \in Requests, env \in Envs :
          Acquire(d, info, env)
    \/ \E d \in DOMAIN dev : Stop(d)
    \/ \E step \in TickSteps : Tick(step)

SpecDuid == InitDevice /\ [][NextDuid]_vars

---------------------------------------------------------------------------
(* Acquire against what the mirror knows of the interface: the device of  *)
(* any interface, or of an ifindex the mirror does not know, and every    *)
(* list of up to MaxAddrs addresses                                       *)

UnknownIfindex == Cardinality(IfIndexes) + 1

InitReady ==
    /\ \E i \in {2, UnknownIfindex} :
          Becomes0(ni_dhcp6_device_new(
                       W0,
                       IF i \in IfIndexes THEN Netdevs[i].name
                       ELSE <<101, 116, 104, 57>>,
                       i, <<0, 0, 0, 0>>))
    /\ obs = Obs("new", 1, 0, NoLog)

(* an address of the interface: a link-local one that is usable,         *)
(* tentative or duplicate, or a global one                                *)
AddrKinds == {"ok", "tentative", "duplicate", "global"}

Address(kind, addr) ==
    [family |-> "INET6", linklocal |-> (kind # "global"),
     state |-> IF kind = "global" THEN "ok" ELSE kind, local_addr |-> addr]

ReadyKernels ==
    { [link_up |-> TRUE, network_up |-> TRUE,
       addrs |-> [i \in 1..Len(kinds) |-> Address(kinds[i], i)]] :
         kinds \in UNION {[1..n -> AddrKinds] : n \in 0..MaxAddrs} }
    \cup { [link_up |-> FALSE, network_up |-> FALSE, addrs |-> <<>>] }

(* a request without and one with a preferred DUID *)
ReadyRequests == {info \in Requests : ~info.info_only}

ReadyEnvs ==
    {env \in Envs : /\ env.default_duid = <<>>
                    /\ env.load_rv = -1
                    /\ env.save_ok
                    /\ env.uuid = <<170>>
                    /\ env.rnd = "min"
                    /\ env.send = "sent"}

NextReady ==
    \/ \E d \in DOMAIN dev, info \in ReadyRequests, env \in ReadyEnvs :
          Acquire(d, info, env)
    \/ \E d \in DOMAIN dev, k \in ReadyKernels :
          dev[d].ifindex \in IfIndexes /\ NetlinkUpdate(d, k)
    \/ \E d \in DOMAIN dev : Stop(d)
    \/ \E d \in DOMAIN dev : DelayExpired(d, "min", "sent")

SpecReady == InitReady /\ [][NextReady]_vars

(* The lookup of a candidate server in the preferred servers: the        *)
(* configuration and the candidate are drawn, then the lookup runs        *)
PrefWeights == {5, 7}

Preferences ==
    [serverid : {<<>>, <<1>>, <<2>>}, address : {0, 1, 2}, weight : PrefWeights]

Lookups ==
    [prefs : UNION {[1..n -> Preferences] : n \in 0..MaxPrefs},
     addr : {NULL, 1}, duid : {<<>>, <<1>>}, weight : {-1}]

InitPreference ==
    /\ Becomes0(W0)
    /\ \E l \in Lookups :
          obs = Obs("candidate", 0, 0, [NoLog EXCEPT !.lookup = <<l>>,
                                                    !.weight = l.weight])

ServerPreference ==
    /\ obs.op = "candidate"
    /\ LET l == obs.log.lookup[1]
           r == ni_dhcp6_config_server_preference(l.prefs, l.addr, l.duid,
                                                  l.weight)
       IN obs' = Obs("server_preference", 0, 0,
                     [obs.log EXCEPT !.match = r.rv, !.weight = r.weight])
    /\ UNCHANGED <<dev, ni_dhcp6_active, freed, nfree, lease_files, now,
                   duid_store, kernel, fsm_timers>>

NextPreference == ServerPreference

SpecPreference == InitPreference /\ [][NextPreference]_vars

(* Leases over the life of devices: the caller hands over a new lease,  *)
(* the lease the device holds or none; the FSM writes the lease file      *)
SetLease(d, lease) ==
    /\ d \in Live(W)
    /\ IF lease \in {NULL, dev[d].lease} THEN TRUE ELSE Fresh(W, lease)
    /\ Becomes(ni_dhcp6_device_set_lease(W, d, lease))
    /\ obs' = Obs("set_lease", d, 0, NoLog)

DropLease(d) ==
    /\ d \in Live(W)
    /\ Becomes(ni_dhcp6_device_drop_lease(W, d))
    /\ obs' = Obs("drop_lease", d, 0, NoLog)

WriteLeaseFile(d) ==
    /\ d \in Live(W)
    /\ dev[d].lease # NULL
    /\ dev[d].ifname \notin lease_files
    /\ lease_files' = lease_files \cup {dev[d].ifname}
    /\ obs' = Obs("lease_file", d, 0, NoLog)
    /\ UNCHANGED <<dev, ni_dhcp6_active, freed, nfree, now, duid_store,
                   kernel, fsm_timers>>

NextLease ==
    \/ New(2, <<0, 0, 0, 0>>)
    \/ \E d \in DOMAIN dev : Put(d)
    \/ \E d \in DOMAIN dev, lease \in Objs \cup {NULL} : SetLease(d, lease)
    \/ \E d \in DOMAIN dev : DropLease(d)
    \/ \E d \in DOMAIN dev : WriteLeaseFile(d)
    \/ \E d \in DOMAIN dev : Stop(d)

SpecLease == Init /\ [][NextLease]_vars

(* Events: the addresses and names that events carry, the readiness     *)
(* timer, acquire and stop                                                *)
EventAddrs ==
    {Address(kind, addr) : kind \in AddrKinds \ {"global"}, addr \in 1..2}
    \cup {Address("global", 3),
          [family |-> "INET", linklocal |-> TRUE, state |-> "ok",
           local_addr |-> 4]}

EventNames == {Netdevs[2].name, <<119, 97, 110>>}

EventEnvs == {env \in PlainEnvs : env.rnd = "min"}

DeviceEvent(d, name, event) ==
    /\ d \in Live(W)
    /\ Returns("device_event", d,
               [rv |-> 0,
                w |-> ni_dhcp6_device_event(
                          [W EXCEPT !.log.event = event,
                                    !.log.name = name],
                          d, name, event)])

AddressEvent(d, event, addr, env) ==
    /\ d \in Live(W)
    /\ Returns("address_event", d,
               [rv |-> 0,
                w |-> ni_dhcp6_address_event(
                          [W EXCEPT !.log.event = event,
                                    !.log.addr = <<addr>>],
                          d, event, addr, env)])

ReadyTimeout(d) ==
    /\ d \in Live(W)
    /\ dev[d].fsm_state = "WAIT_READY"
    /\ dev[d].timer # NULL
    /\ Returns("timeout", d, [rv |-> 0, w |-> FsmReadyTimeout(W, d)])

NextEvents ==
    \/ \E d \in DOMAIN dev, info \in PlainRequests, env \in EventEnvs :
          Acquire(d, info, env)
    \/ \E d \in DOMAIN dev, name \in EventNames, event \in DeviceEvents :
          DeviceEvent(d, name, event)
    \/ \E d \in DOMAIN dev, event \in AddressEvents, addr \in EventAddrs,
          env \in EventEnvs :
          AddressEvent(d, event, addr, env)
    \/ \E d \in DOMAIN dev, k \in KernelStates : NetlinkUpdate(d, k)
    \/ \E d \in DOMAIN dev : ReadyTimeout(d)
    \/ \E d \in DOMAIN dev : Stop(d)

SpecEvents == InitRetrans /\ [][NextEvents]_vars

(* The request over the life of a device. A caller passes a request no  *)
(* device holds, the request the device holds, or NULL; a request that   *)
(* was freed twice is not passed again                                    *)
SetRequestOf(d, request) ==
    /\ d \in Live(W)
    /\ IF request = NULL THEN TRUE
       ELSE IF request = dev[d].request THEN nfree.request[request] < 2
       ELSE Fresh(W, request)
    /\ Becomes(ni_dhcp6_device_set_request(W, d, request))
    /\ obs' = Obs("set_request", d, 0, [NoLog EXCEPT !.request = request])

NextRequest ==
    \/ New(2, <<0, 0, 0, 0>>)
    \/ \E d \in DOMAIN dev : Get(d)
    \/ \E d \in DOMAIN dev : Put(d)
    \/ \E d \in DOMAIN dev, request \in Objs \cup {NULL} :
          SetRequestOf(d, request)
    \/ \E d \in DOMAIN dev : Stop(d)

SpecRequest == Init /\ [][NextRequest]_vars

(* Waiting for readiness: acquire, the address events of one link-local *)
(* address, the kernel's view, the readiness timer and the two stops     *)
WaitAddrs == {Address("ok", 1), Address("tentative", 1)}

WaitRequests == {info \in PlainRequests : ~info.info_only}

NextWait ==
    \/ \E d \in DOMAIN dev, info \in WaitRequests, env \in EventEnvs :
          Acquire(d, info, env)
    \/ \E d \in DOMAIN dev : DeviceEvent(d, dev[d].ifname, "DEVICE_DOWN")
    \/ \E d \in DOMAIN dev, event \in AddressEvents, addr \in WaitAddrs,
          env \in EventEnvs :
          AddressEvent(d, event, addr, env)
    \/ \E d \in DOMAIN dev, k \in KernelStates : NetlinkUpdate(d, k)
    \/ \E d \in DOMAIN dev : ReadyTimeout(d)
    \/ \E d \in DOMAIN dev : Stop(d)

(* the timer subsystem fires a live timer *)
SpecWait ==
    /\ InitRetrans /\ [][NextWait]_vars
    /\ \A d \in 1..MaxDevs : WF_vars(ReadyTimeout(d))

(* The FSM timer over the life of a device: armed by acquire and by the  *)
(* exchanges of the FSM, expired, stopped and released                    *)
NextTimer ==
    \/ \E d \in DOMAIN dev : Put(d)
    \/ \E d \in DOMAIN dev, info \in PlainRequests, env \in PlainEnvs :
          Acquire(d, info, env)
    \/ \E d \in DOMAIN dev, x \in Exchanges : Exchange(d, x, "max", "sent")
    \/ \E d \in DOMAIN dev, send \in SendResults : DelayExpired(d, "min", send)
    \/ \E d \in DOMAIN dev, k \in KernelStates : NetlinkUpdate(d, k)
    \/ \E d \in DOMAIN dev : Stop(d)

SpecTimer == InitRetrans /\ [][NextTimer]_vars

---------------------------------------------------------------------------
(* Properties of the registry and the reference count *)

Elements(list) == {list[i] : i \in 1..Len(list)}

(* C1, refcount conservation: a device that is not freed has users >= 1;   *)
(* a get raises users by exactly 1 and a put lowers it by exactly 1; a     *)
(* device is freed in a step exactly when that step is a put of it that    *)
(* finds users = 1.                                                        *)
RefcountStep ==
    /\ obs'.op = "get" =>
          /\ dev'[obs'.d].users = dev[obs'.d].users + 1
          /\ freed' = freed
    /\ obs'.op = "put" => dev'[obs'.d].users = dev[obs'.d].users - 1
    /\ \A d \in DOMAIN dev' :
          (d \in freed' \ freed) <=>
             (obs'.op = "put" /\ obs'.d = d /\ dev[d].users = 1)

RefcountConservation ==
    /\ [](\A d \in DOMAIN dev \ freed : dev[d].users >= 1)
    /\ [][RefcountStep]_vars

(* a put has just freed one device while another is held twice *)
RefcountWitness ==
    /\ obs.op = "put"
    /\ obs.d \in freed
    /\ \E d \in DOMAIN dev \ freed : dev[d].users > 1

(* C2, registry membership: the list holds exactly the devices created and *)
(* not freed, each once, in creation order, and no lookup by ifindex       *)
(* returns a freed device.                                                 *)
RegistryMembership ==
    /\ Elements(ni_dhcp6_active) = DOMAIN dev \ freed
    /\ Cardinality(Elements(ni_dhcp6_active)) = Len(ni_dhcp6_active)
    /\ \A i, j \in 1..Len(ni_dhcp6_active) :
          i < j => ni_dhcp6_active[i] < ni_dhcp6_active[j]
    /\ \A i \in {0} \cup IfIndexes : ni_dhcp6_device_by_index(W, i) \notin freed

(* the first device was freed while a later one stays registered *)
RegistryWitness ==
    /\ 1 \in freed
    /\ obs.op = "put"
    /\ Len(ni_dhcp6_active) >= 1

---------------------------------------------------------------------------
(* Properties of the IAID derivation *)

(* C8, IAID determinism: two derivations for the same device give the     *)
(* same result.                                                            *)
IaidDeterminism == obs.op = "iaid" => obs.run1 = obs.run2

(* C9, IAID name fallback: with a hardware address of at most 4 bytes and  *)
(* a name of exactly 4 characters the IAID is the name's 4 bytes XOR the   *)
(* vlan tag (when present and > 0) XOR the ifindex.                        *)
IaidNameFallback ==
    (/\ obs.op = "iaid"
     /\ dev[obs.d].ifindex \in IfIndexes
     /\ Len(Netdevs[dev[obs.d].ifindex].hwaddr) <= 4
     /\ Len(dev[obs.d].ifname) = 4)
    => LET ifp == Netdevs[dev[obs.d].ifindex] IN
       /\ obs.run1.rv = 0
       /\ obs.run1.iaid =
            Xor32(Xor32(dev[obs.d].ifname,
                        IF ifp.vlan > 0 THEN Word(ifp.vlan) ELSE Word(0)),
                  Word(dev[obs.d].ifindex))

---------------------------------------------------------------------------
(* Properties of the retransmission scheduler *)

(* C4: Retransmission-state exclusivity. In every reachable state of an   *)
(* exchange a pending initial delay (retrans.delay > 0) implies that      *)
(* retrans.start is unset and retrans.count is 0; a step that runs        *)
(* retransmit_arm leaves delay == 0 and start set, and every later step   *)
(* keeps that until one disarms (or resets the block for a new exchange). *)
RetransExclusiveStep ==
    \A d \in Live(W) :
       /\ (obs'.d = d /\ obs'.log.armed) =>
             (dev'[d].retrans.delay = 0 /\ dev'[d].retrans.start # NULL)
       /\ ( /\ dev[d].retrans.delay = 0
            /\ dev[d].retrans.start # NULL
            /\ ~(obs'.d = d /\ obs'.log.disarmed) ) =>
             (dev'[d].retrans.delay = 0 /\ dev'[d].retrans.start # NULL)

RetransExclusivity ==
    /\ [](\A d \in Live(W) :
            dev[d].retrans.delay > 0 =>
               (dev[d].retrans.start = NULL /\ dev[d].retrans.count = 0))
    /\ [][RetransExclusiveStep]_vars

(* the initial delay of an exchange has expired and the first message of  *)
(* the exchange was armed and sent                                         *)
RetransExclusiveWitness ==
    /\ obs.op = "transmit_start"
    /\ obs.log.armed
    /\ dev[obs.d].retrans.delay = 0
    /\ dev[obs.d].retrans.start # NULL
    /\ dev[obs.d].retrans.count = 1

(* C5: First-Solicit jitter. When retransmit_arm runs for the first       *)
(* transmission of a Solicit (state SELECTING, transmission count 1,      *)
(* nretries > 0) the jitter window has no negative part and the RT is     *)
(* strictly greater than IRT and at most IRT + 10%.                       *)
FirstSolicitArm(d) ==
    /\ obs.d = d
    /\ obs.log.armed
    /\ obs.log.arm_state = "SELECTING"
    /\ dev[d].retrans.params.nretries > 0
    /\ \/ obs.log.arm_count = 1
       \/ obs.log.arm_count + obs.log.sent = 1

BackoffGrowth ==
    obs.log.advanced =>
       /\ obs.log.rt >= obs.log.irt
       /\ 10 * obs.log.rt <= 21 * obs.log.irt

(* C7: Uptime monotonicity. With a fixed clamp, the uptime never exceeds  *)
(* the clamp, is 0 whenever retrans.start is unset, and does not decrease *)
(* from one step to the next between the first transmission of an         *)
(* exchange and its disarm.                                               *)
Clamps == {1, 65535}

UptimeStep ==
    \A d \in Live(W), clamp \in Clamps :
       ( /\ dev[d].retrans.start # NULL
         /\ dev'[d].retrans.start # NULL
         /\ ~(obs'.d = d /\ obs'.log.disarmed) ) =>
          ni_dhcp6_device_uptime(W, d, clamp) <=
             ni_dhcp6_device_uptime([W EXCEPT !.dev = dev', !.now = now'],
                                    d, clamp)

UptimeMonotonic ==
    /\ [](\A d \in Live(W), clamp \in Clamps :
            /\ ni_dhcp6_device_uptime(W, d, clamp) <= clamp
            /\ dev[d].retrans.start = NULL =>
                  ni_dhcp6_device_uptime(W, d, clamp) = 0)
    /\ [][UptimeStep]_vars

(* the exchange has been transmitting long enough for the clamp to cut    *)
(* the uptime                                                             *)
UptimeWitness ==
    \E d \in Live(W) :
       /\ dev[d].retrans.start # NULL
       /\ dev[d].retrans.count > 0
       /\ ni_dhcp6_device_uptime(W, d, 65535) = 2
       /\ ni_dhcp6_device_uptime(W, d, 1) = 1

---------------------------------------------------------------------------
(* Properties of stop and of the DUID derivation *)

(* C3: stop is idempotent. After stop the FSM state is INIT, the lease is *)
(* absent, the best offer is (weight -1, no lease), no FSM timer is live, *)
(* the socket is closed, config and request are absent; a second stop     *)
(* right after it changes nothing (no field of the device, and nothing    *)
(* is freed or removed again).                                            *)
StopIdempotent ==
    \A d \in Live(W) :
       (obs.op = "stop" /\ obs.d = d) =>
          /\ dev[d].fsm_state = "INIT"
          /\ dev[d].lease = NULL
          /\ dev[d].best_offer = [weight |-> -1, lease |-> NULL]
          /\ dev[d].timer = NULL
          /\ ~dev[d].sock
          /\ dev[d].config = <<>>
          /\ dev[d].request = NULL
          /\ ni_dhcp6_device_stop(W, d) = W

(* a stop that found a live timer and released a lease and a request *)
StopWitness ==
    /\ obs.op = "stop"
    /\ obs.log.warned
    /\ \E o \in Objs : nfree.lease[o] > 0
    /\ \E o \in Objs : nfree.request[o] > 0

(* C10: DUID idempotence. Once an acquire has saved a DUID to the DUID    *)
(* file, the file holds that DUID, and every later acquire without a      *)
(* preferred DUID and without a configured default DUID gets exactly the  *)
(* stored bytes from the load step, runs no generation step and does not  *)
(* write the file again.                                                  *)
DuidIdempotentStep ==
    ( /\ duid_store # <<>>
      /\ obs'.op = "acquire"
      /\ obs'.log.preferred = <<>>
      /\ obs'.log.default_duid = <<>> ) =>
       /\ obs'.log.duid_src = "load"
       /\ ~obs'.log.generated
       /\ ~obs'.log.saved
       /\ obs'.log.duid = ni_duid_parse_hex(duid_store)
       /\ duid_store' = duid_store

DuidIdempotence ==
    /\ []((obs.op = "acquire" /\ obs.log.saved) =>
             /\ obs.log.duid # <<>>
             /\ ni_duid_parse_hex(duid_store) = obs.log.duid)
    /\ [][DuidIdempotentStep]_vars

(* a later acquire has loaded the DUID-LLT that an earlier one generated  *)
(* and saved                                                              *)
DuidWitness ==
    /\ obs.op = "acquire"
    /\ obs.log.duid_src = "load"
    /\ ~obs.log.saved
    /\ Len(obs.log.duid) > 2
    /\ obs.log.duid[2] = 1
    /\ obs.log.duid[5] # now % 256
    /\ dev[obs.d].config # <<>>
    /\ dev[obs.d].config[1].client_duid = obs.log.duid

(* C11: DUID persistence rule. Whenever the derivation ends with a        *)
(* non-empty DUID that came from the preferred hex string, the configured *)
(* default or a generation step, save_duid is called with it before the   *)
(* derivation returns (and the DUID file holds it when the write          *)
(* succeeds); it is not called when the load step supplied the DUID; the  *)
(* derivation fails only if the final DUID is empty.  This for every      *)
(* outcome of the load step.                                              *)
DuidPersistence ==
    obs.op = "acquire" =>
       /\ ( /\ obs.log.duid # <<>>
            /\ obs.log.duid_src \in {"preferred", "default", "llt_own",
                                     "llt_sibling", "uuid"} ) =>
             /\ obs.log.save_called
             /\ obs.log.saved => ni_duid_parse_hex(duid_store) = obs.log.duid
       /\ obs.log.duid_src = "load" => ~obs.log.save_called
       /\ (obs.log.duid = <<>>) <=> (obs.rv = -1 /\ obs.log.duid_src = "none")

---------------------------------------------------------------------------
(* Properties of acquire and the readiness gate *)

(* acquire has derived a DUID for device d, whose interface the mirror    *)
(* knows                                                                  *)
AcquireScanned(d) ==
    /\ obs.op = "acquire"
    /\ obs.d = d
    /\ obs.log.duid # <<>>
    /\ dev[d].ifindex \in IfIndexes

LinkLocals(k) == {i \in 1..Len(k.addrs) : k.addrs[i].linklocal}

(* C12: Waiting for readiness. When acquire runs on an interface whose    *)
(* link is up and whose link-local addresses are all tentative, it        *)
(* installs the new config, sets the FSM state to WAIT_READY, arms an FSM *)
(* timer of 2000 ms, sets fail_on_timeout, returns a value > 0, does not  *)
(* start the FSM and transmits nothing.                                   *)
WaitsForReadiness ==
    \A d \in Live(W) :
       ( /\ AcquireScanned(d)
         /\ kernel[dev[d].ifindex].link_up
         /\ \A i \in LinkLocals(kernel[dev[d].ifindex]) :
               kernel[dev[d].ifindex].addrs[i].state = "tentative" ) =>
          /\ obs.rv > 0
          /\ obs.log.nascent = "installed"
          /\ dev[d].config # <<>>
          /\ dev[d].config[1].client_duid = obs.log.duid
          /\ dev[d].fsm_state = "WAIT_READY"
          /\ dev[d].timer = NI_DHCP6_WAIT_READY_MSEC
          /\ dev[d].fail_on_timeout
          /\ ~obs.log.fsm_started
          /\ obs.log.sent = 0

(* acquire went to wait on an interface with two tentative link-local     *)
(* addresses                                                              *)
WaitsWitness ==
    /\ obs.op = "acquire"
    /\ obs.log.waiting
    /\ dev[obs.d].ifindex \in IfIndexes
    /\ Cardinality(LinkLocals(kernel[dev[obs.d].ifindex])) = 2
    /\ \A i \in LinkLocals(kernel[dev[obs.d].ifindex]) :
          kernel[dev[obs.d].ifindex].addrs[i].state = "tentative"

(* C13: Duplicate link-local is a hard failure. If the interface has a    *)
(* link-local address flagged duplicate when acquire scans its addresses, *)
(* acquire returns a negative value, installs no config, does not enter   *)
(* WAIT_READY and does not start the FSM, whatever other link-local       *)
(* addresses there are and in whatever order.                             *)
DuplicateIsHardFailure ==
    \A d \in Live(W) :
       ( /\ AcquireScanned(d)
         /\ kernel[dev[d].ifindex].link_up
         /\ \E i \in LinkLocals(kernel[dev[d].ifindex]) :
               kernel[dev[d].ifindex].addrs[i].state = "duplicate" ) =>
          /\ obs.rv < 0
          /\ obs.log.nascent # "installed"
          /\ ~obs.log.waiting
          /\ ~obs.log.fsm_started

(* C14: Acquire fails cleanly. Whenever acquire returns a negative value  *)
(* the nascent config is freed and the installed config, the request, the *)
(* lease, the FSM state, the FSM timer, the link-local source address and *)
(* the retransmission state of the device are what they were before.      *)
AcquireFailsCleanStep ==
    (obs'.op = "acquire" /\ obs'.rv < 0) =>
       /\ obs'.log.nascent = "freed"
       /\ \A d \in Live(W) :
             /\ dev'[d].config = dev[d].config
             /\ dev'[d].request = dev[d].request
             /\ dev'[d].lease = dev[d].lease
             /\ dev'[d].fsm_state = dev[d].fsm_state
             /\ dev'[d].timer = dev[d].timer
             /\ dev'[d].lladdr = dev[d].lladdr
             /\ dev'[d].retrans = dev[d].retrans
             /\ dev'[d].xid = dev[d].xid

AcquireFailsCleanly == [][AcquireFailsCleanStep]_vars

(* an acquire failed on a device that an earlier acquire had started *)
AcquireFailsWitness ==
    /\ obs.op = "acquire"
    /\ obs.rv < 0
    /\ dev[obs.d].config # <<>>
    /\ dev[obs.d].timer # NULL
    /\ dev[obs.d].fsm_state = "SELECTING"

(* C15: Send accounting. retrans.count is the number of transmit calls  *)
(* that succeeded since the last disarm: a step sets it to the count it   *)
(* had (0 when the step disarmed) plus the transmits of the step that     *)
(* succeeded; a transmit that fails or is refused leaves it unchanged, a  *)
(* successful one raises it by exactly 1.                                 *)
SendAccountingStep ==
    \A d \in Live(W) :
       /\ dev'[d].retrans.count =
             (IF obs'.d = d /\ obs'.log.disarmed THEN 0
              ELSE dev[d].retrans.count)
             + (IF obs'.d = d THEN obs'.log.sent ELSE 0)
       /\ (obs'.d = d /\ obs'.op = "transmit") =>
             dev'[d].retrans.count =
                dev[d].retrans.count + (IF obs'.rv = 0 THEN 1 ELSE 0)

SendAccounting ==
    /\ \A d \in Live(W) : dev[d].retrans.count = 0
    /\ [][SendAccountingStep]_vars

(* a retransmission failed to send after an earlier transmit succeeded *)
SendAccountingWitness ==
    /\ obs.op = "retransmit"
    /\ obs.log.send_failed = 1
    /\ obs.log.sent = 0
    /\ dev[obs.d].retrans.count = 1

(* C16: Buffer cleared by every send. After a transmit call that found a *)
(* non-empty buffer the buffer is empty whether the send succeeded or    *)
(* failed; after a failed send the multicast socket is closed, after a   *)
(* successful send it is open.                                            *)
BufferClearedBySend ==
    \A d \in Live(W) :
       (obs.d = d /\ obs.log.sent + obs.log.send_failed > 0) =>
          /\ dev[d].message.count = 0
          /\ obs.log.send_failed > 0 => ~dev[d].sock
          /\ obs.log.sent > 0 => dev[d].sock

(* a send was cut short *)
BufferClearedWitness ==
    /\ obs.op = "transmit_start"
    /\ obs.log.send_failed = 1
    /\ dev[obs.d].message.count = 0
    /\ ~dev[obs.d].sock

(* C17: Single FSM timer. A device has at most one live FSM timer, the  *)
(* one it holds; a timer armed by a step is the timer of the device      *)
(* afterwards, in place of any armed before; after stop or free no timer *)
(* of the device is live.                                                 *)
SingleFsmTimer ==
    \A d \in DOMAIN dev :
       /\ CopiesIn(d, fsm_timers) <= 1
       /\ CopiesIn(d, fsm_timers) = (IF dev[d].timer # NULL THEN 1 ELSE 0)
       /\ (obs.d = d /\ obs.log.fsm_timer # 0) =>
             /\ dev[d].timer = obs.log.fsm_timer
             /\ CopiesIn(d, fsm_timers) = 1
       /\ (obs.d = d /\ obs.op = "stop") => CopiesIn(d, fsm_timers) = 0
       /\ d \in freed => CopiesIn(d, fsm_timers) = 0

(* the readiness timer took the place of a timer armed before *)
SingleFsmTimerWitness ==
    /\ obs.op = "acquire"
    /\ obs.log.rearmed
    /\ obs.log.fsm_timer = NI_DHCP6_WAIT_READY_MSEC
    /\ CopiesIn(obs.d, fsm_timers) = 1

(* C18: Server-preference lookup. The lookup returns TRUE with the      *)
(* weight of the first entry, in configured order, whose server DUID is  *)
(* non-empty and equal to the candidate DUID or whose configured IPv6    *)
(* address equals the candidate address; it returns FALSE and leaves the *)
(* weight untouched when no entry matches in that sense.                 *)
PreferenceHits(l) ==
    {i \in DOMAIN l.prefs :
        \/ Len(l.prefs[i].serverid) > 0 /\ l.duid = l.prefs[i].serverid
        \/ l.prefs[i].address # 0 /\ l.addr = l.prefs[i].address}

FirstHit(l) == CHOOSE i \in PreferenceHits(l) : \A j \in PreferenceHits(l) : i <= j

ServerPreferenceLookup ==
    obs.op = "server_preference" =>
       IF PreferenceHits(obs.log.lookup[1]) = {}
       THEN ~obs.log.match /\ obs.log.weight = obs.log.lookup[1].weight
       ELSE /\ obs.log.match
            /\ obs.log.weight =
                  obs.log.lookup[1].prefs[FirstHit(obs.log.lookup[1])].weight

(* C19: Lease ownership. A device holds at most one lease and never a   *)
(* freed one; no lease is freed twice; a step that takes a lease from a  *)
(* device (set_lease with another lease, drop_lease, stop, free) frees   *)
(* exactly that lease, once; set_lease with the lease already held       *)
(* changes nothing; drop_lease also removes the lease file.              *)
LeaseHeld ==
    /\ \A o \in Objs : nfree.lease[o] <= 1
    /\ \A d \in Live(W) :
          dev[d].lease # NULL =>
             /\ dev[d].lease \in Objs
             /\ nfree.lease[dev[d].lease] = 0
             /\ \A e \in Live(W) \ {d} : dev[e].lease # dev[d].lease

LeaseStep ==
    /\ \A o \in Objs :
          nfree'.lease[o] =
             nfree.lease[o]
             + (IF \E d \in Live(W) : dev[d].lease = o /\ dev'[d].lease # o
                THEN 1 ELSE 0)
    /\ \A d \in Live(W) :
          /\ (obs'.op = "set_lease" /\ obs'.d = d
                 /\ dev'[d].lease = dev[d].lease) =>
                UNCHANGED <<dev, ni_dhcp6_active, freed, nfree, lease_files>>
          /\ (obs'.op \in {"drop_lease", "stop"} /\ obs'.d = d
                 /\ dev[d].lease # NULL) =>
                /\ dev'[d].lease = NULL
                /\ dev[d].ifname \notin lease_files'
          /\ d \in freed' => dev'[d].lease = NULL

LeaseOwnership == []LeaseHeld /\ [][LeaseStep]_vars

(* a lease took the place of another, which was freed, and the device   *)
(* holds the new one                                                      *)
LeaseOwnershipWitness ==
    /\ obs.op = "set_lease"
    /\ dev[obs.d].lease # NULL
    /\ \E o \in Objs : nfree.lease[o] = 1
    /\ dev[obs.d].ifname \in lease_files

(* C20: First Solicit transmission. When transmit_start sends the first *)
(* message of an exchange in state SELECTING (retrans.count is 0 before  *)
(* the call, nretries > 0), the RT stored in params.timeout is in        *)
(* (IRT, IRT + 10%], the deadline is now + RT and the FSM timer is armed *)
(* to exactly that RT.                                                    *)
FirstSolicitTransmission ==
    \A d \in Live(W) :
       ( /\ obs.d = d
         /\ obs.op \in {"transmit_start", "exchange"}
         /\ obs.log.armed
         /\ obs.log.arm_state = "SELECTING"
         /\ obs.log.arm_count = 0
         /\ dev[d].retrans.params.nretries > 0 ) =>
          /\ dev[d].retrans.params.timeout = obs.log.rt
          /\ obs.log.rt > obs.log.irt
          /\ 10 * obs.log.rt <= 11 * obs.log.irt
          /\ dev[d].retrans.deadline = now + obs.log.rt
          /\ dev[d].timer = obs.log.rt

(* C21: Initial delay precedes the first transmission. transmit_init    *)
(* with retrans.delay > 0 arms one FSM timer with a value in             *)
(* [delay - jitter, delay + jitter] and sends nothing: the retransmission *)
(* block (count, start, delay) is unchanged and the buffer still holds    *)
(* the message.  transmit_init with retrans.delay = 0 arms no delay       *)
(* timer, arms retransmission and transmits.                              *)
InitialDelayStep ==
    \A d \in Live(W) :
       (obs'.op = "transmit_init" /\ obs'.d = d) =>
          IF dev[d].retrans.delay > 0
          THEN /\ obs'.rv = 0
               /\ dev'[d].timer >= dev[d].retrans.delay - dev[d].retrans.jitter
               /\ dev'[d].timer <= dev[d].retrans.delay + dev[d].retrans.jitter
               /\ dev'[d].timer = obs'.log.delay_timer
               /\ CopiesIn(d, fsm_timers') = 1
               /\ obs'.log.sent + obs'.log.send_failed + obs'.log.refused = 0
               /\ ~obs'.log.armed
               /\ dev'[d].retrans = dev[d].retrans
               /\ dev'[d].message.count > 0
          ELSE /\ obs'.log.delay_timer = 0
               /\ obs'.log.armed
               /\ dev'[d].retrans.start = now
               /\ obs'.log.sent + obs'.log.send_failed = 1
               /\ obs'.log.refused = 0

(* the transmit_init that begins an exchange: the delay is still set     *)
(* afterwards exactly when it was set before                              *)
InitialDelayExchange ==
    \A d \in Live(W) :
       (obs.op = "exchange" /\ obs.d = d) =>
          IF dev[d].retrans.delay > 0
          THEN /\ obs.rv = 0
               /\ dev[d].timer >= dev[d].retrans.delay - dev[d].retrans.jitter
               /\ dev[d].timer <= dev[d].retrans.delay + dev[d].retrans.jitter
               /\ dev[d].timer = obs.log.delay_timer
               /\ CopiesIn(d, fsm_timers) = 1
               /\ obs.log.sent + obs.log.send_failed + obs.log.refused = 0
               /\ ~obs.log.armed
               /\ dev[d].retrans.count = 0
               /\ dev[d].retrans.start = NULL
               /\ dev[d].message.count > 0
          ELSE /\ obs.log.delay_timer = 0
               /\ obs.log.armed
               /\ dev[d].retrans.start = now
               /\ obs.log.sent + obs.log.send_failed = 1
               /\ obs.log.refused = 0

InitialDelay == []InitialDelayExchange /\ [][InitialDelayStep]_vars

(* transmit_init scheduled the initial delay of a running exchange at    *)
(* the upper end of the window                                            *)
InitialDelayWitness ==
    /\ obs.op = "transmit_init"
    /\ obs.log.delay_timer > 0
    /\ dev[obs.d].retrans.delay > 0
    /\ dev[obs.d].timer = dev[obs.d].retrans.delay + dev[obs.d].retrans.jitter

(* C22: Retransmit driver. If the timeout policy refuses to continue,   *)
(* retransmit zeroes the whole retransmission block, sets xid to 0, does  *)
(* not ask the FSM to retransmit and returns an error; otherwise it       *)
(* advances the timeout and the deadline, asks the FSM to retransmit      *)
(* exactly once and returns its result, and the block stays armed even    *)
(* when the FSM reports an error.                                         *)
RetransmitDriverStep ==
    \A d \in Live(W) :
       (obs'.op = "retransmit" /\ obs'.d = d) =>
          IF dev[d].retrans.params.nretries = 0
          THEN /\ dev'[d].retrans = ZeroRetrans
               /\ dev'[d].xid = 0
               /\ ~obs'.log.advanced
               /\ obs'.log.sent + obs'.log.send_failed + obs'.log.refused = 0
               /\ dev'[d].message = dev[d].message
               /\ obs'.rv < 0
          ELSE /\ obs'.log.advanced
               /\ dev'[d].retrans.params.nretries =
                     dev[d].retrans.params.nretries - 1
               /\ dev'[d].retrans.params.timeout = obs'.log.rt
               /\ dev'[d].retrans.deadline = now + obs'.log.rt
               /\ obs'.log.sent + obs'.log.send_failed + obs'.log.refused = 1
               /\ obs'.rv = (IF obs'.log.sent = 1 THEN 0 ELSE -1)
               /\ dev'[d].retrans.start = dev[d].retrans.start
               /\ dev'[d].retrans.start # NULL
               /\ dev'[d].retrans.duration = dev[d].retrans.duration
               /\ dev'[d].xid = dev[d].xid
               /\ dev'[d].xid # 0

RetransmitDriver == [][RetransmitDriverStep]_vars

(* the FSM failed to retransmit and the block is still armed *)
RetransmitDriverWitness ==
    /\ obs.op = "retransmit"
    /\ obs.rv < 0
    /\ obs.log.advanced
    /\ obs.log.send_failed = 1
    /\ dev[obs.d].retrans.deadline # NULL
    /\ dev[obs.d].retrans.params.nretries > 0

(* C23: Link-local source address stability. link.addr is only set to  *)
(* an IPv6 link-local address reported neither tentative nor duplicate;  *)
(* an ADDRESS_UPDATE never overwrites a link.addr that is set and never  *)
(* sets it from a tentative or duplicate address; link.addr becomes      *)
(* unset only by an ADDRESS_DELETE of the same address or a device stop, *)
(* and an ADDRESS_DELETE of another address leaves it unchanged.         *)
UsableLinkLocal(addr) ==
    addr.family = "INET6" /\ addr.linklocal /\ addr.state = "ok"

LladdrStep ==
    \A d \in Live(W) :
       /\ (dev'[d].lladdr # dev[d].lladdr /\ dev'[d].lladdr # 0) =>
             /\ obs'.d = d
             /\ \/ /\ obs'.op = "address_event"
                   /\ obs'.log.event = "ADDRESS_UPDATE"
                   /\ UsableLinkLocal(obs'.log.addr[1])
                   /\ obs'.log.addr[1].local_addr = dev'[d].lladdr
                \/ /\ obs'.op = "acquire"
                   /\ \E i \in DOMAIN kernel[dev[d].ifindex].addrs :
                         /\ UsableLinkLocal(kernel[dev[d].ifindex].addrs[i])
                         /\ kernel[dev[d].ifindex].addrs[i].local_addr =
                               dev'[d].lladdr
       /\ ( /\ obs'.op = "address_event" /\ obs'.d = d
            /\ obs'.log.event = "ADDRESS_UPDATE"
            /\ \/ dev[d].lladdr # 0
               \/ ~UsableLinkLocal(obs'.log.addr[1]) ) =>
             dev'[d].lladdr = dev[d].lladdr
       /\ (dev[d].lladdr # 0 /\ dev'[d].lladdr = 0) =>
             /\ obs'.d = d
             /\ \/ /\ obs'.op = "address_event"
                   /\ obs'.log.event = "ADDRESS_DELETE"
                   /\ obs'.log.addr[1].family = "INET6"
                   /\ obs'.log.addr[1].local_addr = dev[d].lladdr
                \/ obs'.op = "stop"
                \/ obs'.op = "device_event" /\ obs'.log.event = "DEVICE_DOWN"
       /\ ( /\ obs'.op = "address_event" /\ obs'.d = d
            /\ obs'.log.event = "ADDRESS_DELETE"
            /\ obs'.log.addr[1].local_addr # dev[d].lladdr ) =>
             dev'[d].lladdr = dev[d].lladdr

LladdrStability == [][LladdrStep]_vars

(* an update with another usable link-local address left the recorded   *)
(* address in place                                                       *)
LladdrWitness ==
    /\ obs.op = "address_event"
    /\ obs.log.event = "ADDRESS_UPDATE"
    /\ UsableLinkLocal(obs.log.addr[1])
    /\ dev[obs.d].lladdr # 0
    /\ dev[obs.d].lladdr # obs.log.addr[1].local_addr

(* C26: Device events. NETWORK_UP, NETWORK_DOWN, LINK_UP and LINK_DOWN  *)
(* change no field of the device; DEVICE_UP changes only ifname, to the  *)
(* name of the interface and only when the two differ; DEVICE_DOWN has   *)
(* exactly the effect of ni_dhcp6_device_stop.                           *)
ProgramState ==
    <<dev, ni_dhcp6_active, freed, nfree, lease_files, now, duid_store,
      kernel, fsm_timers>>

DeviceEventStep ==
    obs'.op = "device_event" =>
       /\ obs'.log.event \in
             {"NETWORK_UP", "NETWORK_DOWN", "LINK_UP", "LINK_DOWN"} =>
             UNCHANGED ProgramState
       /\ obs'.log.event = "DEVICE_UP" =>
             /\ dev' = [dev EXCEPT ![obs'.d].ifname = obs'.log.name]
             /\ UNCHANGED <<ni_dhcp6_active, freed, nfree, lease_files, now,
                            duid_store, kernel, fsm_timers>>
       /\ obs'.log.event = "DEVICE_DOWN" =>
             /\ dev' = ni_dhcp6_device_stop(W, obs'.d).dev
             /\ freed' = ni_dhcp6_device_stop(W, obs'.d).freed
             /\ nfree' = ni_dhcp6_device_stop(W, obs'.d).nfree
             /\ lease_files' = ni_dhcp6_device_stop(W, obs'.d).lease_files
             /\ fsm_timers' = ni_dhcp6_device_stop(W, obs'.d).timers
             /\ UNCHANGED <<ni_dhcp6_active, now, duid_store, kernel>>

DeviceEventFrame == [][DeviceEventStep]_vars

(* a LINK_DOWN event reached a device that waits for readiness with its  *)
(* timer armed and its configuration built, and left them in place       *)
DeviceEventWitness ==
    /\ obs.op = "device_event"
    /\ obs.log.event = "LINK_DOWN"
    /\ dev[obs.d].fsm_state = "WAIT_READY"
    /\ dev[obs.d].timer # NULL
    /\ dev[obs.d].config # <<>>

(* C24: WAIT_READY is always resolved. A device in WAIT_READY holds its *)
(* one live readiness timer with fail_on_timeout set; it leaves the      *)
(* state by an ADDRESS_UPDATE that gives it a usable link-local address  *)
(* (link.addr set, the FSM starts), by the expiry of the readiness timer *)
(* (the device fails), by a stop, or by a new acquire that starts over;  *)
(* and it always leaves: it never stays in WAIT_READY forever.           *)
Waiting(d) == d \in DOMAIN dev /\ dev[d].fsm_state = "WAIT_READY"

WaitingArmed ==
    \A d \in 1..MaxDevs :
       Waiting(d) =>
          /\ dev[d].timer = NI_DHCP6_WAIT_READY_MSEC
          /\ CopiesIn(d, fsm_timers) = 1
          /\ dev[d].fail_on_timeout

WaitLeftStep ==
    \A d \in 1..MaxDevs :
       (Waiting(d) /\ d \in DOMAIN dev' /\ dev'[d].fsm_state # "WAIT_READY")
       => /\ obs'.d = d
          /\ \/ /\ obs'.op = "address_event"
                /\ obs'.log.event = "ADDRESS_UPDATE"
                /\ dev'[d].lladdr # 0
                /\ obs'.log.fsm_started
             \/ /\ obs'.op = "timeout"
                /\ dev'[d].failed
                /\ dev'[d].fsm_state = "INIT"
                /\ CopiesIn(d, fsm_timers') = 0
             \/ /\ \/ obs'.op = "stop"
                   \/ obs'.op = "device_event"
                      /\ obs'.log.event = "DEVICE_DOWN"
                /\ dev'[d].fsm_state = "INIT"
                /\ CopiesIn(d, fsm_timers') = 0
             \/ /\ obs'.op = "acquire"
                /\ obs'.log.fsm_started

BestOfferSentinel ==
    \A d \in Live(W) :
       dev[d].best_offer.lease = NULL => dev[d].best_offer.weight = -1

(* C27: Request ownership. After any sequence of set_request, stop and  *)
(* free, with any request argument including the request the device      *)
(* already holds, the request a device holds is never a freed object and *)
(* no request is freed twice; set_request(dev, r) leaves the device      *)
(* holding r and set_request(dev, NULL) leaves it holding none.          *)
RequestOwnership ==
    /\ \A d \in Live(W) :
          dev[d].request # NULL => nfree.request[dev[d].request] = 0
    /\ \A o \in Objs : nfree.request[o] <= 1
    /\ obs.op = "set_request" => dev[obs.d].request = obs.log.request

====
